---- MODULE Spec2Model ----
(***************************************************************************)
(* State-machine model of the gym back office (src/main.py, src/models.py, *)
(* src/database.py): the relational tables are the state, every HTTP       *)
(* handler is one action, and the handlers whose transactions can overlap  *)
(* are also given statement by statement.                                  *)
(*                                                                         *)
(* Conventions.  A nullable column or an Optional request field holds      *)
(* None (<< >>) or Some(v) (<< v >>).  Dates are day numbers; floats that  *)
(* the code only stores, compares and negates are integers.  A table whose *)
(* rows the handlers tell apart by their columns only is a bag of rows:    *)
(* the primary key names a row and is not a column of the model.           *)
(***************************************************************************)
EXTENDS Integers, Sequences, FiniteSets, Bags, TLC

None == << >>
Some(x) == << x >>
IsSome(o) == o # None
Val(o) == o[1]

\* ------------------------------------------------------------------ bounds

\* Largest value of "today" (date.today()) the clock reaches.
MaxDia == 1
\* Calendar of the model: days in a month, months in a year.
DiasPorMes == 2
MesesPorAnio == 2
\* Rows of reservas, stored or about to be inserted by a request in flight.
MaxReservas == 2
\* Rows ever inserted into clases (serial primary key).
MaxClaseId == 1
\* Largest capacity a ClaseUpdate request carries.
MaxCapacidad == 2
\* Rows of caja.
MaxCaja == 1
\* Rows of historial_accesos.
MaxAccesos == 1
\* Largest id the sequence of usuarios hands out.
MaxUsuarioId == 2
\* Requests in flight at once.
MaxSesiones == 2
\* Largest id the sequence of planes_rutina hands out.
MaxRutinaId == 2
\* Months the clock of the quota runs moves forward.
MaxMeses == 1
\* Rows of caja the two movement endpoints add.
MaxMovimientos == 2

\* --------------------------------------------------------------- constants

\* main.py:711, the "unlimited" monthly quota.
CupoIlimitado == 999
\* main.py:1058, the days a plan lasts when its type gives none.
DuracionPorDefecto == 30
\* main.py:535, the days left from which a pass is shown as about to expire.
DiasDeAviso == 3
\* main.py:32
SECRET_KEY == "Vikingo_Security_Strong_Key_2025"

\* Seeded table tipos_planes (models.TipoPlan): no handler writes it.
TiposPlanes ==
    (1 :> [nombre |-> "Mensual", duracion_dias |-> Some(2)]) @@
    (2 :> [nombre |-> "Libre", duracion_dias |-> None]) @@
    (3 :> [nombre |-> "Ajuste", duracion_dias |-> Some(0 - 1)]) @@
    (4 :> [nombre |-> "Pase", duracion_dias |-> Some(0)])

\* Constraints of earlier revisions that startup_event drops, with the
\* columns each makes unique (PostgreSQL's default name spells them out).
LegacyConstraints ==
    { "reservas_usuario_id_clase_id_key",
      "reservas_usuario_id_clase_id_fecha_reserva_key",
      "_usuario_clase_uc" }

\* ---------------------------------------------------------------- state

VARIABLES
    hoy,        \* date.today()
    started,    \* startup_event has run
    uc,         \* UNIQUE constraints present on table reservas
    usuarios,   \* table usuarios:  id -> row
    planes,     \* table planes:    id -> row
    clases,     \* table clases:    id -> row
    reservas,   \* table reservas:  bag of rows
    stock,      \* table stock:     id -> row
    caja,       \* table caja:      bag of rows
    accesos,    \* table historial_accesos: bag of rows
    planes_rutina, \* table planes_rutina with its days, exercises and sets: id -> row
    serial,     \* last primary key issued per table
    txs,        \* book requests in flight: bag of sessions
    last        \* the response to the last request served

vars == << hoy, started, uc, usuarios, planes, clases, reservas, stock, caja,
           accesos, planes_rutina, serial, txs, last >>

\* models.Usuario (the columns the handlers below read or write).
Usuario(dni, nombre, perfil, plan, renov, venc) ==
    [ dni |-> dni, nombre_completo |-> nombre, perfil |-> perfil,
      plan_id |-> plan, fecha_ultima_renovacion |-> renov,
      fecha_vencimiento |-> venc, estado_cuenta |-> "Al día" ]

\* models.Plan
Plan(nombre, tipo, cupo) ==
    [ nombre |-> nombre, tipo_plan_id |-> tipo, clases_mensuales |-> cupo ]

SeedUsuarios ==
    (1 :> Usuario("d1", "Ana", Some("Alumno"), Some(1), None, None)) @@
    (2 :> Usuario("d2", "Beto", Some("Alumno"), None, None, None)) @@
    (3 :> Usuario("d3", "Caro", Some("Profesor"), None, None, None))

SeedPlanes ==
    (1 :> Plan("Mensual", Some(1), 2)) @@
    (2 :> Plan("Libre", Some(2), CupoIlimitado))

NoRequest == [op |-> "none", status |-> 0, detail |-> ""]

\* The database as the server finds it: a seeded roster and plan
\* catalogue, the classes cl, the products st, nothing else.
InitTables(us, cl, st) ==
    /\ hoy = 0
    /\ usuarios = us
    /\ planes = SeedPlanes
    /\ clases = cl
    /\ reservas = EmptyBag
    /\ stock = st
    /\ caja = EmptyBag
    /\ accesos = EmptyBag
    /\ planes_rutina = << >>
    /\ serial = [clases |-> Cardinality(DOMAIN cl),
                 usuarios |-> Cardinality(DOMAIN us),
                 planes_rutina |-> 0]
    /\ txs = EmptyBag
    /\ last = NoRequest

\* The server once startup_event has dropped the legacy constraints.
Init ==
    /\ InitTables(SeedUsuarios, << >>, << >>)
    /\ started = TRUE
    /\ uc = {}

\* -------------------------------------------------------------- helpers

\* The response: the HTTP status and the body's message (an HTTPException's
\* detail, or the "status" field of a 200 body).
Reply(op, status, detail) ==
    last' = [op |-> op, status |-> status, detail |-> detail]

\* Query.count(): the rows m of bag b, counted with their multiplicity.
Count(b, m) == BagCardinality([ r \in m |-> b[r] ])

Add(b, r) == b (+) SetToBag({r})
Remove(b, r) == b (-) SetToBag({r})

\* extract('month', d) and extract('year', d) on the model's calendar.
Mes(d) == ((d \div DiasPorMes) % MesesPorAnio) + 1
Anio(d) == d \div (DiasPorMes * MesesPorAnio)

\* Usuario.plan (relationship): the row plan_id refers to, if any.
PlanDe(u, pl) ==
    IF IsSome(u.plan_id) /\ Val(u.plan_id) \in DOMAIN pl
    THEN Some(pl[Val(u.plan_id)]) ELSE None

\* ------------------------------------------------------- class bookings

\* models.Reserva
Reserva(data, fecha) ==
    [ usuario_id |-> data.usuario_id, clase_id |-> data.clase_id,
      fecha_reserva |-> fecha, horario |-> data.horario,
      dia_semana |-> data.dia_semana ]

\* book_clase, the monthly count: the person's bookings dated in the
\* month and year of today.
ReservasDelMes(rs, uid, d) ==
    LET Test(r) == /\ r.usuario_id = uid
                   /\ Mes(r.fecha_reserva) = Mes(d)
                   /\ Anio(r.fecha_reserva) = Anio(d)
    IN Count(rs, { r \in BagToSet(rs) : Test(r) })

\* book_clase, lines 709-711: the plan's quota, when it is a finite one.
LimiteMensual(u, pl) ==
    LET plan == PlanDe(u, pl) IN
    IF IsSome(plan) /\ Val(plan).clases_mensuales < CupoIlimitado
    THEN Some(Val(plan).clases_mensuales) ELSE None

\* book_clase, the duplicate query: a row of this person for this
\* (class, time, day), whatever its date.
ExisteReserva(rs, data) ==
    \E r \in BagToSet(rs) : /\ r.usuario_id = data.usuario_id
                            /\ r.clase_id = data.clase_id
                            /\ r.horario = data.horario
                            /\ r.dia_semana = data.dia_semana

\* book_clase, the occupancy query: rows stored for this (class, time, day).
CupoActual(rs, data) ==
    LET Test(r) == /\ r.clase_id = data.clase_id
                   /\ r.horario = data.horario
                   /\ r.dia_semana = data.dia_semana
    IN Count(rs, { r \in BagToSet(rs) : Test(r) })

\* The INSERT breaks a UNIQUE constraint still present on reservas.
ViolaUnique(rs, row, cons) ==
    \E r \in BagToSet(rs) :
        /\ r.usuario_id = row.usuario_id
        /\ r.clase_id = row.clase_id
        /\ \/ "reservas_usuario_id_clase_id_key" \in cons
           \/ "_usuario_clase_uc" \in cons
           \/ /\ "reservas_usuario_id_clase_id_fecha_reserva_key" \in cons
              /\ r.fecha_reserva = row.fecha_reserva

\* The INSERT breaks a foreign key of reservas (models.py:75-76).
ViolaForeignKey(row, us, cl) ==
    row.usuario_id \notin DOMAIN us \/ row.clase_id \notin DOMAIN cl

Fail(status, detail) == [status |-> status, detail |-> detail]
Pass == [status |-> 200, detail |-> "ok"]

\* book_clase, one statement each: the response it raises, or Pass.
CheckUsuario(data, us) ==
    IF data.usuario_id \notin DOMAIN us
    THEN Fail(404, "Usuario no encontrado") ELSE Pass

\* CheckCupoMensual as it would be with > in place of >=.
CheckCupoMensualEstricto(limite, data, rs, d) ==
    IF IsSome(limite) /\ ReservasDelMes(rs, data.usuario_id, d) > Val(limite)
    THEN Fail(400, "Has alcanzado tu límite de clases mensuales.") ELSE Pass

CheckCupoMensual(limite, data, rs, d) ==
    IF IsSome(limite) /\ ReservasDelMes(rs, data.usuario_id, d) >= Val(limite)
    THEN Fail(400, "Has alcanzado tu límite de clases mensuales.") ELSE Pass

CheckExiste(data, rs) ==
    IF ExisteReserva(rs, data)
    THEN Fail(400, "Ya tienes reservado este turno específico.") ELSE Pass

CheckClase(data, cl) ==
    IF data.clase_id \notin DOMAIN cl
    THEN Fail(404, "Clase no encontrada") ELSE Pass

\* cupo_actual >= clase.capacidad_max; a NULL capacity raises TypeError,
\* which no handler catches.
CheckCupo(capacidad, data, rs) ==
    IF ~IsSome(capacidad) THEN Fail(500, "Internal Server Error")
    ELSE IF CupoActual(rs, data) >= Val(capacidad)
    THEN Fail(400, "Este horario no tiene cupos disponibles") ELSE Pass

\* CheckCommit as it would be if the INSERT were refused once the
\* (class, time, day) is full.
CheckCommitConCupo(row, us, cl, rs, cons, dbok) ==
    IF ViolaUnique(rs, row, cons) \/ ViolaForeignKey(row, us, cl)
    THEN Fail(400, "Error de base de datos.")
    ELSE IF /\ IsSome(cl[row.clase_id].capacidad_max)
            /\ CupoActual(rs, row) >= Val(cl[row.clase_id].capacidad_max)
    THEN Fail(400, "Error de base de datos.")
    ELSE IF ~dbok
    THEN Fail(500, "Error interno al guardar la reserva.")
    ELSE [status |-> 200, detail |-> "success"]

\* book_clase, the try block: db.add, db.commit and the two handlers.
\* dbok = FALSE is a commit that raises something else than IntegrityError.
CheckCommit(row, us, cl, rs, cons, dbok) ==
    IF ViolaUnique(rs, row, cons) \/ ViolaForeignKey(row, us, cl)
    THEN Fail(400, "Error de base de datos.")
    ELSE IF ~dbok
    THEN Fail(500, "Error interno al guardar la reserva.")
    ELSE [status |-> 200, detail |-> "success"]

\* BookResult as it would be if the class were looked up before the monthly
\* count.
BookResultClaseAntes(data, us, pl, cl, rs, cons, d, dbok) ==
    LET c1 == CheckUsuario(data, us) IN
    IF c1 # Pass THEN c1 ELSE
    LET c4 == CheckClase(data, cl) IN
    IF c4 # Pass THEN c4 ELSE
    LET c2 == CheckCupoMensual(LimiteMensual(us[data.usuario_id], pl), data, rs, d) IN
    IF c2 # Pass THEN c2 ELSE
    LET c3 == CheckExiste(data, rs) IN
    IF c3 # Pass THEN c3 ELSE
    LET c5 == CheckCupo(cl[data.clase_id].capacidad_max, data, rs) IN
    IF c5 # Pass THEN c5 ELSE
    CheckCommit(Reserva(data, d), us, cl, rs, cons, dbok)

\* book_clase on one snapshot of the tables: the first statement that
\* raises decides the response.
BookResult(data, us, pl, cl, rs, cons, d, dbok) ==
    LET c1 == CheckUsuario(data, us) IN
    IF c1 # Pass THEN c1 ELSE
    LET c2 == CheckCupoMensual(LimiteMensual(us[data.usuario_id], pl), data, rs, d) IN
    IF c2 # Pass THEN c2 ELSE
    LET c3 == CheckExiste(data, rs) IN
    IF c3 # Pass THEN c3 ELSE
    LET c4 == CheckClase(data, cl) IN
    IF c4 # Pass THEN c4 ELSE
    LET c5 == CheckCupo(cl[data.clase_id].capacidad_max, data, rs) IN
    IF c5 # Pass THEN c5 ELSE
    CheckCommit(Reserva(data, d), us, cl, rs, cons, dbok)

\* Room for one more row of reservas within the model's bound.
RoomForReserva == BagCardinality(reservas) + BagCardinality(txs) < MaxReservas

\* POST /api/reservas, served without another request in between.
BookClase(data, dbok) ==
    /\ started
    /\ RoomForReserva
    /\ LET res == BookResult(data, usuarios, planes, clases, reservas, uc, hoy, dbok)
       IN /\ Reply("book", res.status, res.detail)
          /\ reservas' = IF res.status = 200
                         THEN Add(reservas, Reserva(data, hoy)) ELSE reservas
    /\ UNCHANGED << hoy, started, uc, planes_rutina, usuarios, planes, clases, stock, caja,
                    accesos, serial, txs >>

\* DELETE /api/reservas/{id}.  found is the row the id names, or None when
\* no row has that id.
CancelReserva(found) ==
    /\ started
    /\ IF IsSome(found)
       THEN /\ Val(found) \in BagToSet(reservas)
            /\ reservas' = Remove(reservas, Val(found))
            /\ Reply("cancel", 200, "success")
       ELSE /\ Reply("cancel", 404, "Reserva no encontrada")
            /\ UNCHANGED reservas
    /\ UNCHANGED << hoy, started, uc, planes_rutina, usuarios, planes, clases, stock, caja,
                    accesos, serial, txs >>

\* models.Clase from a ClaseUpdate body.
Clase(data) ==
    [ nombre |-> data.nombre, coach |-> data.coach, color |-> data.color,
      capacidad_max |-> data.capacidad_max,
      horarios_detalle |-> data.horarios_detalle ]

\* POST /api/clases
CreateClase(data) ==
    /\ started
    /\ serial.clases < MaxClaseId
    /\ LET id == serial.clases + 1 IN
       /\ clases' = clases @@ (id :> Clase(data))
       /\ serial' = [serial EXCEPT !.clases = id]
    /\ Reply("create_clase", 200, "success")
    /\ UNCHANGED << hoy, started, uc, planes_rutina, usuarios, planes, reservas, stock, caja,
                    accesos, txs >>

\* update_clase, the assignments: data.coach goes to the attribute
\* profesor_id, which is no column of clases, so column coach keeps its value.
ClaseActualizada(c, data) ==
    [ c EXCEPT !.nombre = data.nombre,
               !.color = data.color,
               !.capacidad_max = data.capacidad_max,
               !.horarios_detalle = data.horarios_detalle ]

\* PUT /api/clases/{id}
UpdateClase(id, data) ==
    /\ started
    /\ IF id \in DOMAIN clases
       THEN /\ clases' = [clases EXCEPT ![id] = ClaseActualizada(clases[id], data)]
            /\ Reply("update_clase", 200, "success")
       ELSE /\ Reply("update_clase", 200, "error: Clase no encontrada")
            /\ UNCHANGED clases
    /\ UNCHANGED << hoy, started, uc, planes_rutina, usuarios, planes, reservas, stock, caja,
                    accesos, serial, txs >>

\* The calendar day changes.
Tick ==
    /\ hoy < MaxDia
    /\ hoy' = hoy + 1
    /\ UNCHANGED << started, uc, planes_rutina, usuarios, planes, clases, reservas, stock,
                    caja, accesos, serial, txs, last >>

\* Request bodies of the booking runs: every id in use and one that is not.
Horarios == {18}
DiasSemana == {1, 2}

ReservaCreate ==
    [ usuario_id : 1..(serial.usuarios + 1), clase_id : 1..(serial.clases + 1),
      horario : Horarios, dia_semana : DiasSemana ]

Capacidades == {None} \cup { Some(c) : c \in 0..MaxCapacidad }

ClaseUpdate ==
    [ nombre : {"Yoga"}, coach : {"c1"}, color : {Some("#FF0000")},
      capacidad_max : Capacidades,
      horarios_detalle : {Some(<< [dia |-> 1, horario |-> 18] >>)} ]

ReservaIds == { Some(r) : r \in BagToSet(reservas) } \cup {None}

\* Bookings, cancellations and class edits, one request at a time.
NextReservas ==
    \/ \E data \in ReservaCreate, dbok \in BOOLEAN : BookClase(data, dbok)
    \/ \E found \in ReservaIds : CancelReserva(found)
    \/ \E data \in ClaseUpdate : CreateClase(data)
    \/ \E id \in 1..(serial.clases + 1), data \in ClaseUpdate : UpdateClase(id, data)

SpecReservas == Init /\ [][NextReservas]_vars

\* C1: for every class and every (day, time), the bookings stored for that
\* (class, day, time) never outnumber the class's current capacity.
C1_CupoNuncaExcedido ==
    \A id \in DOMAIN clases : \A h \in Horarios, d \in DiasSemana :
        IsSome(clases[id].capacidad_max) =>
            CupoActual(reservas, [clase_id |-> id, horario |-> h, dia_semana |-> d])
                <= Val(clases[id].capacidad_max)

\* ------------------------------------------- bookings, statement by statement

\* Each request has its own Session (database.get_db) and PostgreSQL runs
\* it READ COMMITTED: every statement of book_clase reads the rows
\* committed when it runs, and other requests may commit between two
\* statements.  A session in flight is its request body, the statement it
\* runs next, and what it has read.
Session(data, pc, limite, capacidad) ==
    [ data |-> data, pc |-> pc, limite |-> limite, capacidad |-> capacidad ]

Advance(s, pc) == txs' = Add(Remove(txs, s), [s EXCEPT !.pc = pc])

\* The request ends here with this response.
Finish(s, res) ==
    /\ txs' = Remove(txs, s)
    /\ Reply("book", res.status, res.detail)

\* startup_event: one ALTER TABLE ... DROP CONSTRAINT IF EXISTS per legacy
\* constraint; a DROP that raises is rolled back and leaves its constraint.
Startup ==
    /\ ~started
    /\ started' = TRUE
    /\ \E kept \in SUBSET uc : uc' = kept
    /\ UNCHANGED << hoy, usuarios, planes, clases, reservas, stock, caja,
                    accesos, planes_rutina, serial, txs, last >>

\* lines 705-711: the person and, in the same query, their plan.
BookQueryUsuario(data) ==
    /\ started
    /\ RoomForReserva
    /\ LET res == CheckUsuario(data, usuarios)
           limite == LimiteMensual(usuarios[data.usuario_id], planes)
       IN IF res # Pass
          THEN Reply("book", res.status, res.detail) /\ UNCHANGED txs
          ELSE /\ txs' = Add(txs, Session(data,
                                 IF IsSome(limite) THEN "cupo_mensual" ELSE "existe",
                                 limite, None))
               /\ UNCHANGED last
    /\ UNCHANGED << hoy, started, uc, planes_rutina, usuarios, planes, clases, reservas, stock,
                    caja, accesos, serial >>

\* lines 712-725
BookQueryCupoMensual(s) ==
    /\ s \in BagToSet(txs) /\ s.pc = "cupo_mensual"
    /\ LET res == CheckCupoMensual(s.limite, s.data, reservas, hoy)
       IN IF res # Pass THEN Finish(s, res)
          ELSE Advance(s, "existe") /\ UNCHANGED last
    /\ UNCHANGED << hoy, started, uc, planes_rutina, usuarios, planes, clases, reservas, stock,
                    caja, accesos, serial >>

\* lines 727-735
BookQueryExiste(s) ==
    /\ s \in BagToSet(txs) /\ s.pc = "existe"
    /\ LET res == CheckExiste(s.data, reservas)
       IN IF res # Pass THEN Finish(s, res)
          ELSE Advance(s, "clase") /\ UNCHANGED last
    /\ UNCHANGED << hoy, started, uc, planes_rutina, usuarios, planes, clases, reservas, stock,
                    caja, accesos, serial >>

\* lines 737-739
BookQueryClase(s) ==
    /\ s \in BagToSet(txs) /\ s.pc = "clase"
    /\ LET res == CheckClase(s.data, clases)
       IN IF res # Pass THEN Finish(s, res)
          ELSE /\ txs' = Add(Remove(txs, s),
                             [s EXCEPT !.pc = "cupo",
                                       !.capacidad = clases[s.data.clase_id].capacidad_max])
               /\ UNCHANGED last
    /\ UNCHANGED << hoy, started, uc, planes_rutina, usuarios, planes, clases, reservas, stock,
                    caja, accesos, serial >>

\* lines 741-748
BookQueryCupo(s) ==
    /\ s \in BagToSet(txs) /\ s.pc = "cupo"
    /\ LET res == CheckCupo(s.capacidad, s.data, reservas)
       IN IF res # Pass THEN Finish(s, res)
          ELSE Advance(s, "commit") /\ UNCHANGED last
    /\ UNCHANGED << hoy, started, uc, planes_rutina, usuarios, planes, clases, reservas, stock,
                    caja, accesos, serial >>

\* lines 750-768: the INSERT and the commit; only the constraints of the
\* table can stop it now.
BookCommit(s, dbok) ==
    /\ s \in BagToSet(txs) /\ s.pc = "commit"
    /\ LET row == Reserva(s.data, hoy)
           res == CheckCommit(row, usuarios, clases, reservas, uc, dbok)
       IN /\ Finish(s, res)
          /\ reservas' = IF res.status = 200 THEN Add(reservas, row) ELSE reservas
    /\ UNCHANGED << hoy, started, uc, planes_rutina, usuarios, planes, clases, stock, caja,
                    accesos, serial >>

\* The class the statement-level runs book: one place.
SeedClases ==
    1 :> [ nombre |-> "Yoga", coach |-> "c1", color |-> Some("#FF0000"),
           capacidad_max |-> Some(1),
           horarios_detalle |-> Some(<< [dia |-> 1, horario |-> 18] >>) ]

\* The server at boot: the database holds a class and at most one of the
\* legacy constraints (the three names are the ones the same constraint had
\* in earlier revisions).
InitBoot ==
    /\ InitTables(SeedUsuarios, SeedClases, << >>)
    /\ started = FALSE
    /\ uc \in {{}} \cup { {c} : c \in LegacyConstraints }

\* Book requests whose transactions overlap.
NextReservasConc ==
    \/ Startup
    \/ \E data \in ReservaCreate : BookQueryUsuario(data)
    \/ \E s \in BagToSet(txs) : BookQueryCupoMensual(s)
    \/ \E s \in BagToSet(txs) : BookQueryExiste(s)
    \/ \E s \in BagToSet(txs) : BookQueryClase(s)
    \/ \E s \in BagToSet(txs) : BookQueryCupo(s)
    \/ \E s \in BagToSet(txs), dbok \in BOOLEAN : BookCommit(s, dbok)

SpecReservasConc == InitBoot /\ [][NextReservasConc]_vars

\* Rows of the same person for the same (class, time, day) as row r.
MismoTurno(rs, r) ==
    LET Test(x) == /\ x.usuario_id = r.usuario_id
                   /\ x.clase_id = r.clase_id
                   /\ x.horario = r.horario
                   /\ x.dia_semana = r.dia_semana
    IN Count(rs, { x \in BagToSet(rs) : Test(x) })

\* C2: no person holds two bookings for the same (class, day, time), also
\* when book requests overlap and the legacy constraints are gone.
C2_SinReservaDuplicada ==
    \A r \in BagToSet(reservas) : MismoTurno(reservas, r) <= 1

\* C3: a book request that has passed the capacity check commits its row
\* whatever was committed since: unless a UNIQUE constraint or a database
\* failure stops the INSERT, the response is 200 and the (class, day, time)
\* holds one row more, even when it was full already.
C3_CommitSinRevisarCupo ==
    [][ \A s \in BagToSet(txs) :
          ( /\ BookCommit(s, TRUE)
            /\ ~ViolaUnique(reservas, Reserva(s.data, hoy), uc) )
          => /\ last'.status = 200
             /\ CupoActual(reservas', s.data) = CupoActual(reservas, s.data) + 1
      ]_vars

\* C3, the case: two different persons hold the one place of a class.
C3_Sobrecupo ==
    \E id \in DOMAIN clases : \E r1, r2 \in BagToSet(reservas) :
        /\ r1.clase_id = id /\ r2.clase_id = id
        /\ r1.usuario_id # r2.usuario_id
        /\ r1.horario = r2.horario /\ r1.dia_semana = r2.dia_semana
        /\ IsSome(clases[id].capacidad_max)
        /\ CupoActual(reservas, r1) = Val(clases[id].capacidad_max) + 1

\* ------------------------------------------------------------- payments

\* models.MovimientoCaja (the timestamp column is left out).
MovimientoCaja(tipo, monto, descripcion, metodo) ==
    [ tipo |-> tipo, monto |-> monto, descripcion |-> descripcion,
      metodo_pago |-> metodo ]

\* abs()
Abs(x) == IF x < 0 THEN 0 - x ELSE x

\* The kinds of payment the runs send, and what procesar_cobro's substring
\* tests make of each: "ercader" in tipo, "plan" in tipo.lower().
Tipos == {"Plan", "Mercaderia", "Mercaderia y plan", "Otro"}
ConErcader == {"Mercaderia", "Mercaderia y plan"}
ConPlanEnMinusculas == {"Plan", "Mercaderia y plan"}
EsMercaderia(tipo) == tipo = "Mercaderia" \/ tipo \in ConErcader
EsPlan(tipo) == tipo = "Plan" \/ tipo \in ConPlanEnMinusculas

\* Plan.tipo (relationship): the row of tipos_planes tipo_plan_id refers to.
TipoDe(plan) ==
    IF IsSome(plan.tipo_plan_id) /\ Val(plan.tipo_plan_id) \in DOMAIN TiposPlanes
    THEN Some(TiposPlanes[Val(plan.tipo_plan_id)]) ELSE None

\* lines 1058-1060: a type's duration counts when it is neither NULL nor 0.
DiasDuracion(plan) ==
    LET tipo == TipoDe(plan) IN
    IF /\ IsSome(tipo)
       /\ IsSome(Val(tipo).duracion_dias)
       /\ Val(Val(tipo).duracion_dias) # 0
    THEN Val(Val(tipo).duracion_dias) ELSE DuracionPorDefecto

\* BaseFecha as it would be if unused time were never carried over.
BaseFechaSinAcumular(venc, d) == d

\* lines 1065-1067: the date the new period is counted from.
BaseFecha(venc, d) ==
    IF IsSome(venc) /\ Val(venc) > d THEN Val(venc) ELSE d

\* lines 1069-1072: the renewal of one person.
Renovado(u, planId, plan, d) ==
    [ u EXCEPT !.fecha_ultima_renovacion = Some(d),
               !.fecha_vencimiento = Some(BaseFecha(u.fecha_vencimiento, d)
                                          + DiasDuracion(plan)),
               !.estado_cuenta = "Al día",
               !.plan_id = Some(planId) ]

\* CobroMovimiento as it would be if the amount were stored as supplied.
CobroMovimientoSinAbs(data) ==
    MovimientoCaja("Ingreso", data.monto,
                   IF data.descripcion = "" THEN "Cobro: " \o data.tipo
                   ELSE data.descripcion,
                   data.metodo_pago)

\* lines 1021-1036: the ledger row every payment adds.
CobroMovimiento(data) ==
    MovimientoCaja("Ingreso", Abs(data.monto),
                   IF data.descripcion = "" THEN "Cobro: " \o data.tipo
                   ELSE data.descripcion,
                   data.metodo_pago)

\* CobroStock as it would be if a sale could not take the stock below zero.
CobroStockConPiso(data, st) ==
    IF EsMercaderia(data.tipo) /\ data.producto_id # 0
    THEN IF data.producto_id \notin DOMAIN st
         THEN [error |-> Some(Fail(404, "Producto no encontrado")), stock |-> st]
         ELSE [error |-> None,
               stock |-> [st EXCEPT ![data.producto_id].stock_actual =
                                       IF @ < data.cantidad THEN 0
                                       ELSE @ - data.cantidad]]
    ELSE [error |-> None, stock |-> st]

\* lines 1039-1044: the stock branch; an id of 0 stands for a producto_id
\* that is None or 0, which the test "and data.producto_id" treats alike.
CobroStock(data, st) ==
    IF EsMercaderia(data.tipo) /\ data.producto_id # 0
    THEN IF data.producto_id \notin DOMAIN st
         THEN [error |-> Some(Fail(404, "Producto no encontrado")), stock |-> st]
         ELSE [error |-> None,
               stock |-> [st EXCEPT ![data.producto_id].stock_actual =
                                       @ - data.cantidad]]
    ELSE [error |-> None, stock |-> st]

\* lines 1047-1076: the membership branch; nothing happens unless both the
\* person and the plan are found.
CobroPlan(data, us, pl, d) ==
    IF /\ EsPlan(data.tipo) /\ data.alumno_id # 0
       /\ data.alumno_id \in DOMAIN us
       /\ data.producto_id \in DOMAIN pl
    THEN [us EXCEPT ![data.alumno_id] =
              Renovado(@, data.producto_id, pl[data.producto_id], d)]
    ELSE us

\* CobroSesion as it would be if only a sale of merchandise were entered in
\* the ledger.
CobroSesionSinMovimiento(data, us, pl, st, cj, d) ==
    LET s == CobroStock(data, st) IN
    [ error |-> s.error,
      caja |-> IF EsMercaderia(data.tipo) THEN Add(cj, CobroMovimiento(data))
               ELSE cj,
      stock |-> s.stock,
      usuarios |-> IF IsSome(s.error) THEN us ELSE CobroPlan(data, us, pl, d) ]

\* The tables as the session holds them when it reaches db.commit(), or the
\* HTTPException raised on the way.
CobroSesion(data, us, pl, st, cj, d) ==
    LET s == CobroStock(data, st) IN
    [ error |-> s.error,
      caja |-> Add(cj, CobroMovimiento(data)),
      stock |-> s.stock,
      usuarios |-> IF IsSome(s.error) THEN us ELSE CobroPlan(data, us, pl, d) ]

\* Persistir as it would be if a failed request kept what it had added
\* to the session.
PersistirSinRollback(ok, pendiente, actual) == pendiente

\* db.commit() on success, db.rollback() in the two except blocks.
Persistir(ok, pendiente, actual) == IF ok THEN pendiente ELSE actual

\* The response of procesar_cobro.
CobroRespuesta(ses, dbok) ==
    IF IsSome(ses.error) THEN Val(ses.error)
    ELSE IF ~dbok THEN Fail(500, "Error interno")
    ELSE [status |-> 200, detail |-> "Cobro procesado correctamente"]

\* POST /api/cobros/procesar
ProcesarCobro(data, dbok) ==
    /\ started
    /\ BagCardinality(caja) < MaxCaja
    /\ LET ses == CobroSesion(data, usuarios, planes, stock, caja, hoy)
           res == CobroRespuesta(ses, dbok)
           ok == res.status = 200
       IN /\ Reply("cobro", res.status, res.detail)
          /\ caja' = Persistir(ok, ses.caja, caja)
          /\ stock' = Persistir(ok, ses.stock, stock)
          /\ usuarios' = Persistir(ok, ses.usuarios, usuarios)
    /\ UNCHANGED << hoy, started, uc, planes_rutina, planes, clases, reservas, accesos,
                    serial, txs >>

\* ---------------------------------------------------------------- people

\* Table perfiles, and str.lower() on the role names the runs use.
Perfiles == {"Alumno", "Profesor", "Administracion"}
Lower(s) ==
    CASE s = "Alumno" -> "alumno"
      [] s = "Profesor" -> "profesor"
      [] s = "Administracion" -> "administracion"
      [] s = "PROFESOR" -> "profesor"
      [] OTHER -> s

\* The row of perfiles a case-insensitive search by name finds.
PerfilPorNombre(nombre) ==
    IF \E p \in Perfiles : Lower(p) = Lower(nombre)
    THEN Some(CHOOSE p \in Perfiles : Lower(p) = Lower(nombre)) ELSE None

\* A request field is None when the body does not carry it and Some(v) when
\* it does; v is itself None for an explicit null on a nullable column.
Enviados(body) == { k \in DOMAIN body : IsSome(body[k]) }

\* Merge as it would be if model_dump() kept the fields the body leaves
\* out: the nullable columns among them are written as null.
MergeSinExcludeUnset(u, body) ==
    [ k \in DOMAIN u |->
        IF k \in DOMAIN body
        THEN IF IsSome(body[k]) THEN Val(body[k])
             ELSE IF k \in {"plan_id", "fecha_ultima_renovacion",
                            "fecha_vencimiento"} THEN None ELSE u[k]
        ELSE u[k] ]

\* lines 370, 380-391: every field the body carries that is a column of
\* usuarios overwrites the column.
Merge(u, body) ==
    [ k \in DOMAIN u |->
        IF k \in Enviados(body) THEN Val(body[k]) ELSE u[k] ]

\* lines 373-377: StaffUpdate's perfil_nombre, when it names a role.
ConPerfil(u, body) ==
    IF "perfil_nombre" \in Enviados(body)
       /\ IsSome(PerfilPorNombre(Val(body.perfil_nombre)))
    THEN [u EXCEPT !.perfil = PerfilPorNombre(Val(body.perfil_nombre))]
    ELSE u

\* lines 386-388: the DNI a body asks for belongs to someone else.
DniOcupado(u, body, us) ==
    /\ "dni" \in Enviados(body)
    /\ Val(body.dni) # u.dni
    /\ \E o \in DOMAIN us : us[o].dni = Val(body.dni)

\* ViolaUsuarios as it would be if dni were not declared unique.
ViolaUsuariosSinUnique(id, u, us, pl) ==
    IsSome(u.plan_id) /\ Val(u.plan_id) \notin DOMAIN pl

\* The constraints of usuarios a commit enforces: dni UNIQUE,
\* plan_id REFERENCES planes.
ViolaUsuarios(id, u, us, pl) ==
    \/ \E o \in DOMAIN us \ {id} : us[o].dni = u.dni
    \/ IsSome(u.plan_id) /\ Val(u.plan_id) \notin DOMAIN pl

\* update_db_user: the response and the row as stored afterwards.
UpdateDbUser(id, body, us, pl, dbok) ==
    IF id \notin DOMAIN us
    THEN [res |-> Fail(404, "Usuario no encontrado"), usuarios |-> us]
    ELSE IF DniOcupado(us[id], body, us)
    THEN [res |-> Fail(400, "El DNI ya pertenece a otro usuario"),
          usuarios |-> us]
    ELSE LET u == Merge(ConPerfil(us[id], body), body) IN
         IF ViolaUsuarios(id, u, us, pl) \/ ~dbok
         THEN [res |-> Fail(500, "Error interno al actualizar"),
               usuarios |-> us]
         ELSE [res |-> [status |-> 200, detail |-> "Actualizado correctamente"],
               usuarios |-> [us EXCEPT ![id] = u]]

UnchangedByUsuarios ==
    UNCHANGED << hoy, started, uc, planes_rutina, planes, clases, reservas, stock, caja,
                 accesos, txs >>

\* PUT /api/alumnos/{id}
UpdateAlumno(id, body, dbok) ==
    /\ started
    /\ LET r == UpdateDbUser(id, body, usuarios, planes, dbok) IN
       /\ Reply("update_alumno", r.res.status, r.res.detail)
       /\ usuarios' = r.usuarios
    /\ UNCHANGED serial
    /\ UnchangedByUsuarios

\* PUT /api/staff/{id}
UpdateStaff(id, body, dbok) ==
    /\ started
    /\ LET r == UpdateDbUser(id, body, usuarios, planes, dbok) IN
       /\ Reply("update_staff", r.res.status, r.res.detail)
       /\ usuarios' = r.usuarios
    /\ UNCHANGED serial
    /\ UnchangedByUsuarios

\* The value a constructor argument gets from an optional body field.
Campo(body, k) == IF k \in Enviados(body) THEN Val(body[k]) ELSE None

\* lines 645-661: the person create_alumno builds; the runs always send the
\* name and the DNI.
NuevoAlumno(body, d) ==
    [ dni |-> Val(body.dni),
      nombre_completo |-> Val(body.nombre_completo),
      perfil |-> PerfilPorNombre("alumno"),
      plan_id |-> Campo(body, "plan_id"),
      fecha_ultima_renovacion |->
          IF IsSome(Campo(body, "fecha_ultima_renovacion"))
          THEN Campo(body, "fecha_ultima_renovacion") ELSE Some(d),
      fecha_vencimiento |-> Campo(body, "fecha_vencimiento"),
      estado_cuenta |-> "Al día" ]

\* The insert of one person: the row gets the next id of the sequence.
Insertar(u, detalle, dbok) ==
    LET id == serial.usuarios + 1 IN
    IF ViolaUsuarios(id, u, usuarios, planes)
    THEN /\ Reply("create_usuario", 400, detalle)
         /\ UNCHANGED << usuarios, serial >>
    ELSE IF ~dbok
    THEN /\ Reply("create_usuario", 500, "Error interno")
         /\ UNCHANGED << usuarios, serial >>
    ELSE /\ Reply("create_usuario", 200, "success")
         /\ usuarios' = (id :> u) @@ usuarios
         /\ serial' = [serial EXCEPT !.usuarios = id]

\* POST /api/alumnos
CreateAlumno(body, dbok) ==
    /\ started
    /\ serial.usuarios < MaxUsuarioId
    /\ Insertar(NuevoAlumno(body, hoy),
                "El DNI o Email ya se encuentra registrado", dbok)
    /\ UnchangedByUsuarios

\* POST /api/staff: the role is looked up by its exact name.
CreateStaff(data, dbok) ==
    /\ started
    /\ serial.usuarios < MaxUsuarioId
    /\ IF data.perfil_nombre \notin Perfiles
       THEN /\ Reply("create_usuario", 400, "Perfil no válido")
            /\ UNCHANGED << usuarios, serial >>
       ELSE Insertar(Usuario(data.dni, data.nombre_completo,
                             Some(data.perfil_nombre), None, None, None),
                     "DNI o Email ya registrado", dbok)
    /\ UnchangedByUsuarios

\* Rows of reservas, historial_accesos or planes_rutina still refer to the
\* person: the bulk DELETE breaks their foreign keys.
Referido(id) ==
    \/ \E r \in BagToSet(reservas) : r.usuario_id = id
    \/ \E a \in BagToSet(accesos) : a.usuario_id = id
    \/ \E p \in DOMAIN planes_rutina : planes_rutina[p].usuario_id = id

\* A request in flight has flushed a routine plan of the person: its foreign
\* key holds a lock on the person's row, and the DELETE waits for it.
EnUso(id) ==
    \E s \in BagToSet(txs) : "rutina" \in DOMAIN s /\ s.rutina.usuario_id = id

Sin(f, id) == [ k \in DOMAIN f \ {id} |-> f[k] ]

\* DELETE /api/alumnos/{id} and DELETE /api/staff/{id}
DeleteUsuario(id) ==
    /\ started
    /\ ~EnUso(id)
    /\ IF Referido(id)
       THEN /\ Reply("delete_usuario", 500, "Internal Server Error")
            /\ UNCHANGED usuarios
       ELSE /\ Reply("delete_usuario", 200, "success")
            /\ usuarios' = Sin(usuarios, id)
    /\ UNCHANGED serial
    /\ UnchangedByUsuarios

\* DeletePlan as it would be if the delete cascaded to the plan's people.
DeletePlanEnCascada(id) ==
    /\ started
    /\ usuarios' = [ k \in { j \in DOMAIN usuarios : usuarios[j].plan_id # Some(id) }
                       |-> usuarios[k] ]
    /\ planes' = Sin(planes, id)
    /\ Reply("delete_plan", 200, "success")
    /\ UNCHANGED << hoy, started, uc, planes_rutina, clases, reservas, stock,
                    caja, accesos, serial, txs >>

\* DELETE /api/planes/{id}
DeletePlan(id) ==
    /\ started
    /\ usuarios' = [ k \in DOMAIN usuarios |->
                       IF usuarios[k].plan_id = Some(id)
                       THEN [usuarios[k] EXCEPT !.plan_id = None]
                       ELSE usuarios[k] ]
    /\ planes' = Sin(planes, id)
    /\ Reply("delete_plan", 200, "success")
    /\ UNCHANGED << hoy, started, uc, planes_rutina, clases, reservas, stock, caja, accesos,
                    serial, txs >>

\* ------------------------------------------- payments and people: the runs

SeedStock ==
    1 :> [ nombre_producto |-> "Agua", precio_venta |-> 50,
           stock_actual |-> 1, stock_inicial |-> 1 ]

\* A date no run reaches by the passing of days alone.
FechaLejana == MaxDia + 4

Montos == {0 - 100, 50}

\* alumno_id and producto_id: 0 stands for an id that is absent or 0; id 3
\* is in neither planes nor stock.
TransactionCreate ==
    [ tipo : Tipos, monto : Montos, descripcion : {"Cuota"},
      metodo_pago : {"Efectivo"}, alumno_id : 0..(serial.usuarios + 1),
      producto_id : 0..3, cantidad : {2} ]

AlumnoUpdate ==
    [ nombre_completo : {None},
      dni : {None, Some("d1")},
      plan_id : {None, Some(Some(3))},
      fecha_ultima_renovacion : {None},
      fecha_vencimiento : {None, Some(None), Some(Some(0)),
                           Some(Some(FechaLejana))} ]

AlumnoAlta ==
    [ nombre_completo : {Some("Dani")},
      dni : {Some("d1"), Some("d4")},
      plan_id : {Some(Some(1)), Some(Some(3))},
      fecha_ultima_renovacion : {None},
      fecha_vencimiento : {Some(Some(FechaLejana))} ]

StaffUpdate ==
    [ nombre_completo : {None},
      dni : {None, Some("d1"), Some("d4")},
      perfil_nombre : {None, Some("PROFESOR"), Some("Socio")} ]

StaffAlta ==
    [ nombre_completo : {"Eva"}, dni : {"d1", "d5"},
      perfil_nombre : {"Profesor", "profesor"} ]

UsuarioIds == 1..(serial.usuarios + 1)

\* The member updates that touch nothing but the dates.
EdicionesDeFechas ==
    { body \in AlumnoUpdate : body.dni = None /\ body.plan_id = None }

\* The staff updates that keep the DNI.
EdicionesDePerfil == { body \in StaffUpdate : body.dni = None }

\* A roster of one member.
UnAlumno == 1 :> SeedUsuarios[1]

InitCobros ==
    /\ InitTables(UnAlumno, << >>, SeedStock)
    /\ started = TRUE
    /\ uc = {}

NextCobros ==
    \/ \E data \in TransactionCreate, dbok \in BOOLEAN :
          ProcesarCobro(data, dbok)
    \/ \E id \in UsuarioIds, body \in EdicionesDeFechas, dbok \in BOOLEAN :
          UpdateAlumno(id, body, dbok)
    \/ Tick

SpecCobros == InitCobros /\ [][NextCobros]_vars

\* ------------------------------------------------------ payments: claims

\* C4: a successful Plan payment for a stored person with expiry D and a
\* stored plan of N days sets the expiry to D + N when D is after today and
\* to today + N when D is today, past or unset; it sets the last renewal
\* to today, the account status to "Al día" and the person's plan to the
\* paid plan.
C4_RenovacionSegunVencimiento ==
    [][ \A data \in TransactionCreate :
          ( /\ ProcesarCobro(data, TRUE)
            /\ last'.status = 200
            /\ EsPlan(data.tipo)
            /\ data.alumno_id \in DOMAIN usuarios
            /\ data.producto_id \in DOMAIN planes )
          => LET D == usuarios[data.alumno_id].fecha_vencimiento
                 N == DiasDuracion(planes[data.producto_id])
                 v == usuarios'[data.alumno_id]
             IN /\ v.fecha_vencimiento =
                      Some(IF IsSome(D) /\ Val(D) > hoy THEN Val(D) + N
                           ELSE hoy + N)
                /\ v.fecha_ultima_renovacion = Some(hoy)
                /\ v.estado_cuenta = "Al día"
                /\ v.plan_id = Some(data.producto_id) ]_vars

\* C4, the case: a payment has stacked the two days of plan 1 on an expiry
\* that was still ahead.
C4_RenovacionAcumulada ==
    /\ last.op = "cobro" /\ last.status = 200
    /\ 1 \in DOMAIN usuarios
    /\ usuarios[1].fecha_vencimiento = Some(FechaLejana + 2)
    /\ usuarios[1].fecha_ultima_renovacion = Some(hoy)
    /\ usuarios[1].plan_id = Some(1)

\* C5: a payment that fails leaves caja, stock and usuarios as they were; a
\* payment that succeeds stores its ledger row together with the stock
\* decrement of a merchandise sale and the renewal of a plan sale.
C5_CobroTodoONada ==
    [][ \A data \in TransactionCreate, dbok \in BOOLEAN :
          ProcesarCobro(data, dbok)
          => IF last'.status = 200
             THEN /\ BagCardinality(caja') = BagCardinality(caja) + 1
                  /\ (EsMercaderia(data.tipo) /\ data.producto_id # 0)
                     => stock'[data.producto_id].stock_actual =
                          stock[data.producto_id].stock_actual - data.cantidad
                  /\ ( /\ EsPlan(data.tipo)
                       /\ data.alumno_id \in DOMAIN usuarios
                       /\ data.producto_id \in DOMAIN planes )
                     => usuarios'[data.alumno_id].fecha_ultima_renovacion
                          = Some(hoy)
             ELSE /\ caja' = caja
                  /\ stock' = stock
                  /\ usuarios' = usuarios ]_vars

\* C5, the case: a sale of an unknown product has failed and the ledger is
\* still empty.
C5_CobroFallidoSinRastro ==
    /\ last.op = "cobro" /\ last.status = 404
    /\ caja = EmptyBag
    /\ stock = SeedStock

\* C6: a payment that succeeds adds exactly one row to caja, of type
\* Ingreso, whose amount is the magnitude of the amount supplied.
C6_UnIngresoPorCobro ==
    [][ \A data \in TransactionCreate :
          (ProcesarCobro(data, TRUE) /\ last'.status = 200)
          => \E row \in BagToSet(caja') :
                /\ caja' = Add(caja, row)
                /\ row.tipo = "Ingreso"
                /\ row.monto >= 0
                /\ row.monto \in {data.monto, 0 - data.monto} ]_vars

\* C6, the case: a payment of -100 is in the ledger as an income of 100.
C6_IngresoDeMontoNegativo ==
    /\ last.op = "cobro" /\ last.status = 200
    /\ \E row \in BagToSet(caja) : row.tipo = "Ingreso" /\ row.monto = 100

\* C7: a payment of kind Plan that succeeds has renewed the person it
\* names from the plan it names.
C7_PlanCobradoEsRenovado ==
    [][ \A data \in TransactionCreate :
          (ProcesarCobro(data, TRUE) /\ last'.status = 200
           /\ data.tipo = "Plan")
          => /\ data.alumno_id \in DOMAIN usuarios'
             /\ data.producto_id \in DOMAIN planes
             /\ usuarios'[data.alumno_id].plan_id = Some(data.producto_id)
             /\ usuarios'[data.alumno_id].fecha_ultima_renovacion = Some(hoy)
             /\ IsSome(usuarios'[data.alumno_id].fecha_vencimiento) ]_vars

\* ------------------------------------------------- every write to usuarios

\* The payments of the fee of plan 1, of an unknown plan or of none among
\* TransactionCreate.
CobrosDeCuota ==
    { data \in TransactionCreate :
        data.tipo = "Plan" /\ data.monto = 50 /\ data.producto_id # 2 }

\* The staff updates that keep the DNI and name no role of perfiles.
EdicionesSinRol ==
    { body \in EdicionesDePerfil : body.perfil_nombre # Some("PROFESOR") }

NextUsuarios ==
    \/ \E data \in CobrosDeCuota, dbok \in BOOLEAN :
          ProcesarCobro(data, dbok)
    \/ \E id \in UsuarioIds, body \in EdicionesDeFechas, dbok \in BOOLEAN :
          UpdateAlumno(id, body, dbok)
    \/ \E id \in UsuarioIds, body \in EdicionesSinRol, dbok \in BOOLEAN :
          UpdateStaff(id, body, dbok)
    \/ \E body \in AlumnoAlta, dbok \in BOOLEAN : CreateAlumno(body, dbok)
    \/ \E data \in StaffAlta, dbok \in BOOLEAN : CreateStaff(data, dbok)
    \/ \E id \in UsuarioIds : DeleteUsuario(id)
    \/ \E id \in {1, 3} : DeletePlan(id)

SpecUsuarios == InitCobros /\ [][NextUsuarios]_vars

\* The people stored before and after a step whose expiry the step changes.
CambiaVencimiento(id) ==
    /\ id \in DOMAIN usuarios
    /\ id \in DOMAIN usuarios'
    /\ usuarios'[id].fecha_vencimiento # usuarios[id].fecha_vencimiento

\* The step adds exactly one row to caja, of type Ingreso.
AgregaIngreso ==
    \E row \in BagToSet(caja') : row.tipo = "Ingreso" /\ caja' = Add(caja, row)

\* C8 as stated: no step changes the expiry of a stored person without
\* adding an Ingreso row to caja.
C8_VencimientoSoloConIngreso ==
    [][ \A id \in DOMAIN usuarios : CambiaVencimiento(id) => AgregaIngreso
      ]_vars

\* C8, amended: the expiry of a stored person changes only in a payment
\* that succeeds and adds an Ingreso row to caja, or in a member update of
\* that person that succeeds and whose body carries fecha_vencimiento.
C8_VencimientoPorCobroOEdicion ==
    [][ \A id \in DOMAIN usuarios :
          CambiaVencimiento(id)
          => \/ /\ last'.op = "cobro" /\ last'.status = 200
                /\ AgregaIngreso
             \/ \E body \in AlumnoUpdate :
                   /\ UpdateAlumno(id, body, TRUE)
                   /\ last'.status = 200
                   /\ IsSome(body.fecha_vencimiento) ]_vars

\* C8, the case: a member update has moved the expiry of person 1 and the
\* ledger is empty.
C8_VencimientoEditado ==
    /\ last.op = "update_alumno" /\ last.status = 200
    /\ 1 \in DOMAIN usuarios
    /\ usuarios[1].fecha_vencimiento = Some(FechaLejana)
    /\ caja = EmptyBag

\* --------------------------------------------------------- access control

\* hashlib.sha256(...).hexdigest(): the digest of a text, one per text.
Sha256(texto) == "sha256(" \o texto \o ")"

\* models.Acceso (the timestamp, ip_address and user_agent are left out).
Acceso(id, dni, u, res) ==
    [ usuario_id |-> id, dni |-> dni, nombre |-> u.nombre_completo,
      rol |-> res.rol, metodo |-> "QR SCAN", accion |-> res.status,
      exitoso |-> (res.status = "AUTHORIZED") ]

\* lines 485-491
RespuestaBase ==
    [ status |-> "DENIED", message |-> "Error desconocido",
      nombre |-> "Desconocido", rol |-> "N/A", color |-> "red" ]

\* line 521
RolesStaff ==
    { "administracion", "administrativo", "profesor", "staff", "admin",
      "dueño", "supervisor" }

\* FirmaCorrecta as it would be if the hash were never compared.
FirmaSinVerificar(dni, hash) == TRUE

\* lines 501-503: the hash received is the digest of the DNI and the key.
FirmaCorrecta(dni, hash) == hash = Sha256(dni \o SECRET_KEY)

\* Vigente as it would be if the day of expiry were already a day late.
VigenteEstricto(venc, d) == venc > d

\* line 530
Vigente(venc, d) == venc >= d

\* lines 516-544: the decision for the person found.
Decidir(u, d) ==
    LET rol == IF IsSome(u.perfil) THEN Val(u.perfil) ELSE "Usuario"
        base == [RespuestaBase EXCEPT !.nombre = u.nombre_completo,
                                      !.rol = rol]
        venc == u.fecha_vencimiento
    IN IF Lower(rol) \in RolesStaff
       THEN [base EXCEPT !.status = "AUTHORIZED",
                         !.message = "Bienvenido Staff", !.color = "blue"]
       ELSE IF IsSome(venc)
       THEN IF Vigente(Val(venc), d)
            THEN IF Val(venc) - d <= DiasDeAviso
                 THEN [base EXCEPT !.status = "AUTHORIZED",
                                   !.message = "¡Atención: Próximo a vencer!",
                                   !.color = "yellow"]
                 ELSE [base EXCEPT !.status = "AUTHORIZED",
                                   !.message = "Pase Válido ("
                                       \o ToString(Val(venc) - d)
                                       \o " días rest.)",
                                   !.color = "green"]
            ELSE [base EXCEPT !.status = "DENIED",
                              !.message = "Plan Vencido el "
                                  \o ToString(Val(venc)),
                              !.color = "red"]
       ELSE base

\* The response of validar_acceso_qr with the number of queries on usuarios
\* the request has run.
Responder(res, lecturas) ==
    last' = [ op |-> "acceso", status |-> 200, detail |-> res.message,
              body |-> res, lecturas |-> lecturas ]

\* line 509: the person of that DNI.
UsuarioPorDni(us, dni) ==
    IF \E id \in DOMAIN us : us[id].dni = dni
    THEN Some(CHOOSE id \in DOMAIN us : us[id].dni = dni) ELSE None

\* POST /api/acceso/validar. qr is the payload cut at its colons, as
\* str.split(":") returns it: one piece when it holds no colon; unpacking
\* more than two pieces raises ValueError, which nothing handles. logok
\* tells whether the insert into historial_accesos goes through.
ValidarAccesoQr(qr, logok) ==
    /\ started
    /\ BagCardinality(accesos) < MaxAccesos
    /\ IF Len(qr) = 1
       THEN /\ Responder([RespuestaBase EXCEPT
                             !.message = "Formato de QR no válido"], 0)
            /\ UNCHANGED accesos
       ELSE IF Len(qr) # 2
       THEN /\ Reply("acceso", 500, "Internal Server Error")
            /\ UNCHANGED accesos
       ELSE IF ~FirmaCorrecta(qr[1], qr[2])
       THEN /\ Responder([RespuestaBase EXCEPT
                             !.message = "Código QR no autorizado o falsificado",
                             !.nombre = "Error Seguridad"], 0)
            /\ UNCHANGED accesos
       ELSE LET user == UsuarioPorDni(usuarios, qr[1]) IN
            IF user = None
            THEN /\ Responder([RespuestaBase EXCEPT
                                  !.message = "Usuario no registrado"], 1)
                 /\ UNCHANGED accesos
            ELSE LET res == Decidir(usuarios[Val(user)], hoy) IN
                 /\ Responder(res, 1)
                 /\ accesos' =
                      IF logok
                      THEN Add(accesos, Acceso(Val(user), qr[1],
                                               usuarios[Val(user)], res))
                      ELSE accesos
    /\ UNCHANGED << hoy, started, uc, planes_rutina, usuarios, planes, clases, reservas,
                    stock, caja, serial, txs >>

\* The payloads the runs scan: for a stored and for an unknown DNI, with the
\* right hash, with the hash of the other DNI and with the hash computed
\* without the key; one payload without a colon and one with two.
Dnis == {"d1", "d9"}
QrPayloads ==
    { << dni, Sha256(otro \o SECRET_KEY) >> : dni \in Dnis, otro \in Dnis }
    \cup { << dni, Sha256(dni) >> : dni \in Dnis }
    \cup { << "d1" >>, << "d1", Sha256("d1" \o SECRET_KEY), "" >> }

InitAcceso ==
    /\ InitTables(UnAlumno, << >>, << >>)
    /\ started = TRUE
    /\ uc = {}

NextAcceso ==
    \/ \E qr \in QrPayloads, logok \in BOOLEAN : ValidarAccesoQr(qr, logok)
    \/ \E id \in UsuarioIds, body \in EdicionesDeFechas, dbok \in BOOLEAN :
          UpdateAlumno(id, body, dbok)
    \/ \E id \in UsuarioIds, body \in EdicionesDePerfil, dbok \in BOOLEAN :
          UpdateStaff(id, body, dbok)
    \/ \E id \in UsuarioIds : DeleteUsuario(id)
    \/ Tick

SpecAcceso == InitAcceso /\ [][NextAcceso]_vars

\* The payload is a DNI and the digest of that DNI and the key.
BienFirmado(qr) == Len(qr) = 2 /\ qr[2] = Sha256(qr[1] \o SECRET_KEY)

\* C9: for a well signed payload whose DNI is that of a stored person the
\* answer is AUTHORIZED exactly when the person has a staff role or an
\* expiry that is set and not before today, and DENIED otherwise.
C9_AutorizadoSiStaffOVigente ==
    [][ \A qr \in QrPayloads, logok \in BOOLEAN :
          ( /\ ValidarAccesoQr(qr, logok)
            /\ BienFirmado(qr)
            /\ \E id \in DOMAIN usuarios : usuarios[id].dni = qr[1] )
          => \E id \in DOMAIN usuarios :
                /\ usuarios[id].dni = qr[1]
                /\ last'.status = 200
                /\ last'.body.status \in {"AUTHORIZED", "DENIED"}
                /\ (last'.body.status = "AUTHORIZED")
                   <=> \/ /\ IsSome(usuarios[id].perfil)
                          /\ Lower(Val(usuarios[id].perfil)) \in RolesStaff
                       \/ /\ IsSome(usuarios[id].fecha_vencimiento)
                          /\ Val(usuarios[id].fecha_vencimiento) >= hoy
      ]_vars

\* C9, the case: a member whose pass expires today has been let in.
C9_AutorizadoElDiaDelVencimiento ==
    /\ last.op = "acceso" /\ last.status = 200
    /\ last.body.status = "AUTHORIZED"
    /\ last.body.rol = "Alumno"
    /\ \E id \in DOMAIN usuarios :
          /\ usuarios[id].perfil = Some("Alumno")
          /\ usuarios[id].fecha_vencimiento = Some(hoy)
          /\ \E a \in BagToSet(accesos) :
                a.usuario_id = id /\ a.accion = "AUTHORIZED"

\* C10: a payload of a DNI and a hash that is not the digest of the DNI and
\* the key gets one and the same DENIED answer whatever the roster holds,
\* without a query on usuarios and without a change to any table.
C10_FirmaFalsaDenegada ==
    [][ \A qr \in QrPayloads, logok \in BOOLEAN :
          ( /\ ValidarAccesoQr(qr, logok)
            /\ Len(qr) = 2
            /\ qr[2] # Sha256(qr[1] \o SECRET_KEY) )
          => /\ last'.status = 200
             /\ last'.body = [ status |-> "DENIED",
                               message |-> "Código QR no autorizado o falsificado",
                               nombre |-> "Error Seguridad",
                               rol |-> "N/A", color |-> "red" ]
             /\ last'.lecturas = 0
             /\ usuarios' = usuarios
             /\ accesos' = accesos ]_vars

\* C10, the case: a forged payload has been turned down while the roster
\* holds a member of staff, and nothing has been logged.
C10_FalsificadoConStaffEnPadron ==
    /\ last.op = "acceso" /\ last.status = 200
    /\ last.body.nombre = "Error Seguridad"
    /\ last.lecturas = 0
    /\ \E id \in DOMAIN usuarios :
          usuarios[id].dni = "d1" /\ usuarios[id].perfil = Some("Profesor")
    /\ accesos = EmptyBag

\* C11: every validation that returns a decision while the insert into
\* historial_accesos goes through adds exactly one row to it, whose accion
\* is the status returned and whose exitoso is true exactly for AUTHORIZED.
C11_CadaIntentoQuedaRegistrado ==
    [][ \A qr \in QrPayloads :
          (ValidarAccesoQr(qr, TRUE) /\ last'.status = 200)
          => \E a \in BagToSet(accesos') :
                /\ accesos' = Add(accesos, a)
                /\ a.accion = last'.body.status
                /\ a.exitoso = (last'.body.status = "AUTHORIZED") ]_vars

\* ----------------------------------------- people: overlapping creations

\* POST /api/alumnos up to db.add(): the person is in the session.
AltaAlumnoBegin(body) ==
    /\ started
    /\ serial.usuarios < MaxUsuarioId
    /\ BagCardinality(txs) < MaxSesiones
    /\ txs' = Add(txs, [ u |-> NuevoAlumno(body, hoy),
                         detalle |-> "El DNI o Email ya se encuentra registrado" ])
    /\ UNCHANGED << hoy, started, uc, planes_rutina, usuarios, planes, clases, reservas,
                    stock, caja, accesos, serial, last >>

\* POST /api/staff up to db.add().
AltaStaffBegin(data) ==
    /\ started
    /\ serial.usuarios < MaxUsuarioId
    /\ BagCardinality(txs) < MaxSesiones
    /\ IF data.perfil_nombre \notin Perfiles
       THEN /\ Reply("create_usuario", 400, "Perfil no válido")
            /\ UNCHANGED txs
       ELSE /\ txs' = Add(txs, [ u |-> Usuario(data.dni, data.nombre_completo,
                                               Some(data.perfil_nombre),
                                               None, None, None),
                                 detalle |-> "DNI o Email ya registrado" ])
            /\ UNCHANGED last
    /\ UNCHANGED << hoy, started, uc, planes_rutina, usuarios, planes, clases, reservas,
                    stock, caja, accesos, serial >>

\* db.commit() of a creation, and its except blocks.
AltaCommit(s, dbok) ==
    /\ started
    /\ \/ serial.usuarios < MaxUsuarioId
       \/ ViolaUsuarios(serial.usuarios + 1, s.u, usuarios, planes)
       \/ ~dbok
    /\ Insertar(s.u, s.detalle, dbok)
    /\ txs' = Remove(txs, s)
    /\ UNCHANGED << hoy, started, uc, planes_rutina, planes, clases, reservas, stock, caja,
                    accesos >>

\* The updates that send a DNI or nothing.
EdicionesDeDni ==
    { body \in StaffUpdate : body.perfil_nombre = None }

NextAltas ==
    \/ \E body \in AlumnoAlta : AltaAlumnoBegin(body)
    \/ \E data \in StaffAlta : AltaStaffBegin(data)
    \/ \E s \in BagToSet(txs), dbok \in BOOLEAN : AltaCommit(s, dbok)
    \/ \E id \in UsuarioIds, body \in EdicionesDeDni, dbok \in BOOLEAN :
          UpdateStaff(id, body, dbok)
    \/ \E id \in UsuarioIds : DeleteUsuario(id)

SpecAltas == InitAcceso /\ [][NextAltas]_vars

\* No two stored people have the same DNI.
DniUnicos(us) ==
    \A a \in DOMAIN us, b \in DOMAIN us : a # b => us[a].dni # us[b].dni

\* Somebody other than person id holds this DNI.
DniDeOtro(id, dni) ==
    \E o \in DOMAIN usuarios \ {id} : usuarios[o].dni = dni

\* C12: no two stored people ever share a DNI; with the database up, the
\* commit of a creation whose DNI is in use, overlapping creations included,
\* and an update to a DNI somebody else holds both answer 400 and leave
\* usuarios as it was.
C12_DniUnico ==
    [][ /\ DniUnicos(usuarios')
        /\ \A s \in BagToSet(txs) :
              (AltaCommit(s, TRUE) /\ DniDeOtro(0, s.u.dni))
              => (last'.status = 400 /\ usuarios' = usuarios)
        /\ \A id \in DOMAIN usuarios, body \in EdicionesDeDni :
              ( /\ UpdateStaff(id, body, TRUE)
                /\ IsSome(body.dni)
                /\ DniDeOtro(id, Val(body.dni)) )
              => (last'.status = 400 /\ usuarios' = usuarios) ]_vars

\* C12, the case: of two creations in flight for the same DNI one is stored
\* as person 2 and the other has been answered 400.
C12_AltaRepetidaRechazada ==
    /\ last.op = "create_usuario" /\ last.status = 400
    /\ last.detail = "El DNI o Email ya se encuentra registrado"
    /\ 2 \in DOMAIN usuarios
    /\ usuarios[2].dni = "d4"
    /\ txs = EmptyBag

\* ------------------------------------------------------- routine plans

\* Table ejercicios_libreria: the ids of the exercises in the library.
EjerciciosLibreria == {1}

\* d.ejercicios if d.ejercicios else []
ListaEjercicios(d) == IF IsSome(d.ejercicios) THEN Val(d.ejercicios) ELSE << >>

\* models.EjercicioEnRutina with its models.SerieEjercicio rows.
EjercicioEnRutina(e) ==
    [ ejercicio_id |-> e.ejercicio_id, comentario |-> e.comentario,
      series_detalle |-> e.series ]

\* models.DiaRutina with its exercises.
DiaRutina(d) ==
    [ nombre_dia |-> d.nombre_dia,
      ejercicios |-> [ i \in DOMAIN ListaEjercicios(d) |->
                         EjercicioEnRutina(ListaEjercicios(d)[i]) ] ]

\* models.PlanRutina with its days.
PlanRutina(data, d) ==
    [ usuario_id |-> data.usuario_id, objetivo |-> data.objetivo,
      fecha_vencimiento |-> data.fecha_vencimiento, activo |-> TRUE,
      fecha_creacion |-> d,
      dias |-> [ i \in DOMAIN data.dias |-> DiaRutina(data.dias[i]) ] ]

\* ejercicios_en_rutina.ejercicio_id REFERENCES ejercicios_libreria: the
\* flush of an entry that names no library exercise raises.
ViolaEjercicios(data) ==
    \E i \in DOMAIN data.dias :
       \E j \in DOMAIN ListaEjercicios(data.dias[i]) :
          ListaEjercicios(data.dias[i])[j].ejercicio_id \notin EjerciciosLibreria

\* The committed routine plans of a person.
RutinasDe(pr, uid) == { p \in DOMAIN pr : pr[p].usuario_id = uid }

\* The rows GET /api/rutinas/usuario/{id} chooses its first() from.
RutinasActivas(pr, uid) == { p \in RutinasDe(pr, uid) : pr[p].activo }

\* Routine plans another request in flight has updated and not committed.
Bloqueadas == UNION { s.desactivados : s \in { t \in BagToSet(txs) : "rutina" \in DOMAIN t } }

\* POST /api/rutinas/plan up to the last flush: the person, the UPDATE that
\* deactivates the person's committed plans, and the inserts.  Every raise
\* inside the try, the 404 included, is answered by the except with a 500
\* after a rollback; the id the sequence handed out is not given back.
RutinaBegin(data) ==
    /\ started
    /\ serial.planes_rutina < MaxRutinaId
    /\ BagCardinality(txs) < MaxSesiones
    /\ IF data.usuario_id \notin DOMAIN usuarios
       THEN /\ Reply("rutina", 500, "Usuario no encontrado")
            /\ UNCHANGED << serial, txs >>
       ELSE /\ RutinasDe(planes_rutina, data.usuario_id) \cap Bloqueadas = {}
            /\ serial' = [serial EXCEPT !.planes_rutina = @ + 1]
            /\ IF ViolaEjercicios(data)
               THEN /\ Reply("rutina", 500, "ForeignKeyViolation")
                    /\ UNCHANGED txs
               ELSE /\ txs' = Add(txs, [ id |-> serial.planes_rutina + 1,
                                         rutina |-> PlanRutina(data, hoy),
                                         desactivados |->
                                            RutinasDe(planes_rutina, data.usuario_id) ])
                    /\ UNCHANGED last
    /\ UNCHANGED << hoy, started, uc, usuarios, planes, clases, reservas,
                    stock, caja, accesos, planes_rutina >>

\* RutinaCommit as it would be if the UPDATE that deactivates were committed
\* on its own, before the inserts.
RutinaCommitSinRollback(s, dbok) ==
    /\ started
    /\ "rutina" \in DOMAIN s
    /\ txs' = Remove(txs, s)
    /\ IF dbok
       THEN /\ planes_rutina' =
                 (s.id :> s.rutina) @@
                 [ p \in DOMAIN planes_rutina |->
                     IF p \in s.desactivados
                     THEN [planes_rutina[p] EXCEPT !.activo = FALSE]
                     ELSE planes_rutina[p] ]
            /\ last' = [ op |-> "rutina", status |-> 200, detail |-> "success",
                         id |-> s.id ]
       ELSE /\ Reply("rutina", 500, "OperationalError")
            /\ planes_rutina' =
                 [ p \in DOMAIN planes_rutina |->
                     IF p \in s.desactivados
                     THEN [planes_rutina[p] EXCEPT !.activo = FALSE]
                     ELSE planes_rutina[p] ]
    /\ UNCHANGED << hoy, started, uc, usuarios, planes, clases, reservas,
                    stock, caja, accesos, serial >>

\* db.commit() of POST /api/rutinas/plan, and its except block.
RutinaCommit(s, dbok) ==
    /\ started
    /\ "rutina" \in DOMAIN s
    /\ txs' = Remove(txs, s)
    /\ IF dbok
       THEN /\ planes_rutina' =
                 (s.id :> s.rutina) @@
                 [ p \in DOMAIN planes_rutina |->
                     IF p \in s.desactivados
                     THEN [planes_rutina[p] EXCEPT !.activo = FALSE]
                     ELSE planes_rutina[p] ]
            /\ last' = [ op |-> "rutina", status |-> 200, detail |-> "success",
                         id |-> s.id ]
       ELSE /\ Reply("rutina", 500, "OperationalError")
            /\ UNCHANGED planes_rutina
    /\ UNCHANGED << hoy, started, uc, usuarios, planes, clases, reservas,
                    stock, caja, accesos, serial >>

SerieCreate ==
    [ numero_serie : {1}, repeticiones : {"10"}, peso : {"20"}, descanso : {"60"} ]

\* An entry of the library exercise and one of an exercise that is not there.
EjercicioEnRutinaCreate ==
    [ ejercicio_id : {1, 7}, series : { << s >> : s \in SerieCreate },
      comentario : {""} ]

DiaRutinaCreate ==
    [ nombre_dia : {"Lunes"},
      ejercicios : {None}
                   \cup { Some(<< e >>) : e \in EjercicioEnRutinaCreate }
                   \cup { Some(<< a, b >>) : a \in EjercicioEnRutinaCreate,
                                             b \in EjercicioEnRutinaCreate } ]

PlanRutinaCreate ==
    [ usuario_id : UsuarioIds, objetivo : {"Fuerza"},
      fecha_vencimiento : {FechaLejana},
      dias : { << d >> : d \in DiaRutinaCreate } ]

\* The bookings of the seeded class on day 1.
ReservasDelLunes == { data \in ReservaCreate : data.clase_id = 1 /\ data.dia_semana = 1 }

InitRutinas ==
    /\ InitTables(UnAlumno, SeedClases, << >>)
    /\ started = TRUE
    /\ uc = {}

NextRutinas ==
    \/ \E data \in PlanRutinaCreate : RutinaBegin(data)
    \/ \E s \in BagToSet(txs), dbok \in BOOLEAN : RutinaCommit(s, dbok)
    \/ \E id \in UsuarioIds : DeleteUsuario(id)
    \/ \E data \in ReservasDelLunes, dbok \in BOOLEAN : BookClase(data, dbok)
    \/ \E found \in ReservaIds : CancelReserva(found)

SpecRutinas == InitRutinas /\ [][NextRutinas]_vars

SinPlan(u) == [ c \in DOMAIN u \ {"plan_id"} |-> u[c] ]

\* C14: the delete of a plan removes that plan and no other, deletes no
\* person, sets plan_id to null on exactly the people that referred to the
\* plan and leaves their other columns, and every other person, as they were.
C14_BajaDePlanDesvincula ==
    [][ \A id \in {1, 3} :
          DeletePlan(id)
          => /\ planes' = Sin(planes, id)
             /\ DOMAIN usuarios' = DOMAIN usuarios
             /\ \A k \in DOMAIN usuarios :
                   /\ SinPlan(usuarios'[k]) = SinPlan(usuarios[k])
                   /\ usuarios'[k].plan_id =
                         IF usuarios[k].plan_id = Some(id)
                         THEN None ELSE usuarios[k].plan_id ]_vars

\* C14, the case: plan 1 is gone, the person who had paid for it keeps the
\* expiry of the renewal and has no plan.
C14_PlanBorradoConAlumno ==
    /\ last.op = "delete_plan"
    /\ 1 \notin DOMAIN planes
    /\ 1 \in DOMAIN usuarios
    /\ usuarios[1].plan_id = None
    /\ usuarios[1].fecha_vencimiento # None
    /\ usuarios[1].fecha_ultima_renovacion # None

\* C15: however the requests that set a person's routine plan overlap, no
\* person has two routine plans with activo true, and when one of them
\* commits the person's active plan is the one it created.
C15_UnaRutinaActiva ==
    [][ /\ \A uid \in DOMAIN usuarios' :
              Cardinality(RutinasActivas(planes_rutina', uid)) <= 1
        /\ \A s \in BagToSet(txs) :
              RutinaCommit(s, TRUE)
              => RutinasActivas(planes_rutina', s.rutina.usuario_id) = {s.id} ]_vars

\* C16: a routine plan sent for a stored person with an entry whose
\* ejercicio_id is not in the library is not answered with an error: the plan
\* goes on to its commit active, with every day sent and, in each day, the
\* entries of library exercises with their sets, the other entries left out.
C16_EjercicioInexistenteOmitido ==
    [][ \A data \in PlanRutinaCreate :
          ( /\ RutinaBegin(data)
            /\ data.usuario_id \in DOMAIN usuarios
            /\ ViolaEjercicios(data) )
          => \E s \in BagToSet(txs') :
                /\ txs' = Add(txs, s)
                /\ s.rutina.activo
                /\ Len(s.rutina.dias) = Len(data.dias)
                /\ \A i \in DOMAIN data.dias :
                      LET Valido(e) == e.ejercicio_id \in EjerciciosLibreria
                          validos == SelectSeq(ListaEjercicios(data.dias[i]), Valido)
                      IN s.rutina.dias[i].ejercicios =
                            [ j \in DOMAIN validos |-> EjercicioEnRutina(validos[j]) ] ]_vars

\* ----------------------------------------------------- the monthly quota

\* PUT /api/planes/{id}: an unknown id is answered 200 with an error body,
\* a tipo_plan_id that is not in tipos_planes breaks the foreign key.
UpdatePlan(id, data) ==
    /\ started
    /\ IF id \in DOMAIN planes /\ data.tipo_plan_id \notin DOMAIN TiposPlanes
       THEN /\ Reply("update_plan", 500, "Internal Server Error")
            /\ UNCHANGED planes
       ELSE IF id \in DOMAIN planes
       THEN /\ planes' = [planes EXCEPT ![id] =
                            Plan(data.nombre, Some(data.tipo_plan_id),
                                 data.clases_mensuales)]
            /\ Reply("update_plan", 200, "success")
       ELSE /\ Reply("update_plan", 200, "Plan no encontrado")
            /\ UNCHANGED planes
    /\ UNCHANGED << hoy, started, uc, usuarios, clases, reservas, stock, caja,
                    accesos, planes_rutina, serial, txs >>

\* A month goes by between two requests.
PasaUnMes ==
    /\ hoy < DiasPorMes * MaxMeses
    /\ hoy' = hoy + DiasPorMes
    /\ UNCHANGED << started, uc, usuarios, planes, clases, reservas, stock,
                    caja, accesos, planes_rutina, serial, txs, last >>

\* Plans of no class a month, of one, and without a limit.
PlanUpdate ==
    [ nombre : {"Mensual"}, tipo_plan_id : {1},
      clases_mensuales : {0, 1, CupoIlimitado} ]

\* A member with a plan and a member without one.
DosAlumnos == [ id \in {1, 2} |-> SeedUsuarios[id] ]

\* The bookings of the seeded class, on either day.
ReservasDeYoga == { data \in ReservaCreate : data.clase_id = 1 }

InitCupos ==
    /\ InitTables(DosAlumnos, SeedClases, << >>)
    /\ started = TRUE
    /\ uc = {}

NextCupos ==
    \/ \E data \in ReservasDeYoga, dbok \in BOOLEAN : BookClase(data, dbok)
    \/ \E found \in ReservaIds : CancelReserva(found)
    \/ \E data \in PlanUpdate : UpdatePlan(1, data)
    \/ PasaUnMes

SpecCupos == InitCupos /\ [][NextCupos]_vars

\* The text of the 400 that the monthly count raises.
CupoAgotado == "Has alcanzado tu límite de clases mensuales."

\* C17: with the database up, a booking request of a stored person is
\* answered 400 for the monthly limit exactly when the person's plan has a
\* limit below 999 and the bookings of the person dated in the month and year
\* of today are at least that many, and then nothing is inserted; a person
\* without a plan, or whose plan's limit is 999, never gets that answer.
C17_CupoMensual ==
    [][ \A data \in ReservasDeYoga :
          (BookClase(data, TRUE) /\ data.usuario_id \in DOMAIN usuarios)
          => LET u == usuarios[data.usuario_id]
                 delMes == { r \in BagToSet(reservas) :
                               /\ r.usuario_id = data.usuario_id
                               /\ r.fecha_reserva \div DiasPorMes = hoy \div DiasPorMes }
                 n == BagCardinality([ r \in delMes |-> reservas[r] ])
                 conLimite == /\ u.plan_id # None
                              /\ planes[Val(u.plan_id)].clases_mensuales < CupoIlimitado
             IN /\ (last'.status = 400 /\ last'.detail = CupoAgotado)
                      <=> (conLimite /\ n >= planes[Val(u.plan_id)].clases_mensuales)
                /\ (last'.detail = CupoAgotado) => (reservas' = reservas) ]_vars

\* C17, the case: a person whose plan allows one class a month holds a
\* booking dated this month and has just been refused another.
C17_CupoAlcanzado ==
    /\ last.op = "book" /\ last.status = 400 /\ last.detail = CupoAgotado
    /\ planes[1].clases_mensuales = 1
    /\ \E r \in BagToSet(reservas) :
          r.usuario_id = 1 /\ Mes(r.fecha_reserva) = Mes(hoy)
    /\ hoy > 0

\* ------------------------------------------------ the length of a renewal

\* Plans of every type of tipos_planes, and of one that is not there.
PlanesConTipo ==
    [ nombre : {"Mensual"}, tipo_plan_id : {1, 2, 3, 4, 9},
      clases_mensuales : {CupoIlimitado} ]

NextDuracion ==
    \/ \E data \in CobrosDeCuota, dbok \in BOOLEAN : ProcesarCobro(data, dbok)
    \/ \E data \in PlanesConTipo : UpdatePlan(1, data)
    \/ \E id \in UsuarioIds, body \in EdicionesDeFechas, dbok \in BOOLEAN :
          UpdateAlumno(id, body, dbok)
    \/ Tick

SpecDuracion == InitCobros /\ [][NextDuracion]_vars

\* C18: a payment that renews a person adds to the base date the duration of
\* the plan's type when that is positive and 30 days when the plan has no
\* type or the type's duration is unset, zero or negative, so that the new
\* expiry is never before the base date.
C18_DuracionPositivaOTreinta ==
    [][ \A data \in CobrosDeCuota :
          ( /\ ProcesarCobro(data, TRUE)
            /\ last'.status = 200
            /\ data.alumno_id \in DOMAIN usuarios
            /\ data.producto_id \in DOMAIN planes )
          => LET tipo == TipoDe(planes[data.producto_id])
                 dias == IF /\ IsSome(tipo)
                            /\ IsSome(Val(tipo).duracion_dias)
                            /\ Val(Val(tipo).duracion_dias) > 0
                         THEN Val(Val(tipo).duracion_dias) ELSE DuracionPorDefecto
                 base == BaseFecha(usuarios[data.alumno_id].fecha_vencimiento, hoy)
                 venc == usuarios'[data.alumno_id].fecha_vencimiento
             IN /\ venc = Some(base + dias)
                /\ Val(venc) >= base ]_vars

\* ------------------------------------------------------------ the ledger

\* func.sum(MovimientoCaja.monto) over the rows of a bag; 0 for no rows.
RECURSIVE Suma(_)
Suma(b) ==
    IF b = EmptyBag THEN 0
    ELSE LET r == CHOOSE x \in BagToSet(b) : TRUE
         IN r.monto + Suma(Remove(b, r))

\* The rows of the ledger of one tipo.
DeTipo(cj, tipo) == [ r \in { x \in BagToSet(cj) : x.tipo = tipo } |-> cj[r] ]

\* The body of GET /api/caja/resumen.
Resumen(cj) ==
    [ ingresos |-> Suma(DeTipo(cj, "Ingreso")),
      gastos |-> Suma(DeTipo(cj, "Egreso")),
      balance |-> Suma(DeTipo(cj, "Ingreso")) - Suma(DeTipo(cj, "Egreso")) ]

\* GET /api/caja/resumen
GetCajaResumen ==
    /\ started
    /\ last' = [ op |-> "resumen", status |-> 200, detail |-> "ok",
                 body |-> Resumen(caja) ]
    /\ UNCHANGED << hoy, started, uc, usuarios, planes, clases, reservas,
                    stock, caja, accesos, planes_rutina, serial, txs >>

\* Room for one more row of caja within the model's bound.
RoomForMovimiento == BagCardinality(caja) < MaxMovimientos

\* POST /api/caja/movimiento: the tipo is stored as it was sent.
CreateMovimiento(data, dbok) ==
    /\ started
    /\ RoomForMovimiento
    /\ IF dbok
       THEN /\ caja' = Add(caja, MovimientoCaja(data.tipo, Abs(data.monto),
                                                data.descripcion, data.metodo_pago))
            /\ Reply("movimiento", 200, "success")
       ELSE /\ Reply("movimiento", 500, "Internal Server Error")
            /\ UNCHANGED caja
    /\ UNCHANGED << hoy, started, uc, usuarios, planes, clases, reservas,
                    stock, accesos, planes_rutina, serial, txs >>

\* crear_movimiento_caja, lines 989-991.
TipoFinal(tipo) == IF tipo \in {"Gasto", "Compra", "Egreso"} THEN "Egreso" ELSE tipo

\* POST /api/caja/movimientos
CrearMovimientoCaja(mov, dbok) ==
    /\ started
    /\ RoomForMovimiento
    /\ IF dbok
       THEN /\ caja' = Add(caja, MovimientoCaja(TipoFinal(mov.tipo), Abs(mov.monto),
                                                mov.descripcion, mov.metodo_pago))
            /\ Reply("movimientos", 200, "success")
       ELSE /\ Reply("movimientos", 500, "Internal Server Error")
            /\ UNCHANGED caja
    /\ UNCHANGED << hoy, started, uc, usuarios, planes, clases, reservas,
                    stock, accesos, planes_rutina, serial, txs >>

\* Bodies of both movement endpoints: income, expense under two of its
\* names, either sign, a neutral description and one of a purchase.
MovimientoCreate ==
    [ tipo : {"Ingreso", "Egreso", "Gasto"}, monto : Montos,
      descripcion : {"Cuota", "Compra de insumos"}, metodo_pago : {"Efectivo"} ]

NextCaja ==
    \/ \E data \in MovimientoCreate, dbok \in BOOLEAN : CreateMovimiento(data, dbok)
    \/ \E mov \in MovimientoCreate, dbok \in BOOLEAN : CrearMovimientoCaja(mov, dbok)
    \/ \E data \in CobrosDeCuota, dbok \in BOOLEAN : ProcesarCobro(data, dbok)
    \/ GetCajaResumen

SpecCaja == InitCobros /\ [][NextCaja]_vars

\* C19: whatever movements and payments have been recorded, every row of the
\* ledger has tipo Ingreso or Egreso and a monto that is not negative, so
\* that the two sums of the summary together count every row once, and the
\* balance of the summary is its income less its expense.
C19_ResumenCuentaTodo ==
    /\ \A r \in BagToSet(caja) : r.tipo \in {"Ingreso", "Egreso"} /\ r.monto >= 0
    /\ Resumen(caja).ingresos + Resumen(caja).gastos = Suma(caja)
    /\ Resumen(caja).balance = Resumen(caja).ingresos - Resumen(caja).gastos

\* C20: a movement recorded through either endpoint is stored with the
\* magnitude of its amount, and with tipo Egreso when its description is
\* that of a purchase, whatever tipo the request carries.
C20_EgresoPorDescripcion ==
    [][ \A mov \in MovimientoCreate :
          (CreateMovimiento(mov, TRUE) \/ CrearMovimientoCaja(mov, TRUE))
          => \E r \in BagToSet(caja') :
                /\ caja' = Add(caja, r)
                /\ r.monto = Abs(mov.monto)
                /\ r.monto >= 0
                /\ (mov.descripcion = "Compra de insumos") => (r.tipo = "Egreso") ]_vars

\* The columns of a product other than stock_actual.
SinStockActual(p) == [ c \in DOMAIN p \ {"stock_actual"} |-> p[c] ]

\* C21: a payment of merchandise that succeeds for a stored product takes
\* exactly cantidad off its stock_actual, below zero when the sale is larger
\* than the stock, and leaves its name, price and stock_inicial, and every
\* other product, as they were.
C21_StockSinPiso ==
    [][ \A data \in TransactionCreate :
          ( /\ ProcesarCobro(data, TRUE)
            /\ last'.status = 200
            /\ EsMercaderia(data.tipo)
            /\ data.producto_id \in DOMAIN stock )
          => /\ DOMAIN stock' = DOMAIN stock
             /\ stock'[data.producto_id].stock_actual =
                   stock[data.producto_id].stock_actual - data.cantidad
             /\ \A id \in DOMAIN stock :
                   /\ SinStockActual(stock'[id]) = SinStockActual(stock[id])
                   /\ id # data.producto_id => stock'[id] = stock[id] ]_vars

\* C21, the case: a sale of two units of a product with one in stock has
\* been paid and the stock is one below zero.
C21_StockNegativo ==
    /\ last.op = "cobro" /\ last.status = 200
    /\ stock[1].stock_actual = 0 - 1
    /\ stock[1].stock_inicial = 1

\* ------------------------------------------------- classes: edit and move

\* list(c.horarios_detalle) if c.horarios_detalle else []
ListaHorarios(c) ==
    IF IsSome(c.horarios_detalle) THEN Val(c.horarios_detalle) ELSE << >>

\* move_clase, the loop: the entries whose dia and horario are the old ones.
Coinciden(horarios, data) ==
    { i \in DOMAIN horarios : /\ horarios[i].dia = data.old_dia
                              /\ horarios[i].horario = data.old_horario }

\* The entry the loop stops at.
Primero(ix) == CHOOSE i \in ix : \A j \in ix : i <= j

\* MoverHorario as it would be if the loop had no break.
MoverHorarioSinBreak(horarios, data) ==
    [ i \in DOMAIN horarios |->
        IF i \in Coinciden(horarios, data)
        THEN [horarios[i] EXCEPT !.dia = data.new_dia, !.horario = data.new_horario]
        ELSE horarios[i] ]

\* move_clase, the loop's effect on a list with a matching entry.
MoverHorario(horarios, data) ==
    [ horarios EXCEPT ![Primero(Coinciden(horarios, data))] =
        [@ EXCEPT !.dia = data.new_dia, !.horario = data.new_horario] ]

\* PUT /api/clases/{id}/move
MoveClase(id, data) ==
    /\ started
    /\ IF id \notin DOMAIN clases
       THEN /\ Reply("move_clase", 404, "Clase no encontrada")
            /\ UNCHANGED clases
       ELSE IF Coinciden(ListaHorarios(clases[id]), data) = {}
       THEN /\ Reply("move_clase", 200, "error: No se encontró el horario original")
            /\ UNCHANGED clases
       ELSE /\ clases' = [clases EXCEPT ![id].horarios_detalle =
                            Some(MoverHorario(ListaHorarios(clases[id]), data))]
            /\ Reply("move_clase", 200, "success")
    /\ UNCHANGED << hoy, started, uc, usuarios, planes, reservas, stock, caja,
                    accesos, planes_rutina, serial, txs >>

\* Bodies of the class runs: two names, two coaches, no schedule, one
\* occurrence, and the same occurrence twice.
ClasesEnviadas ==
    [ nombre : {"Yoga", "Pilates"}, coach : {"c1", "c2"},
      color : {Some("#FF0000")}, capacidad_max : {Some(1)},
      horarios_detalle : { None,
                           Some(<< [dia |-> 1, horario |-> 18] >>),
                           Some(<< [dia |-> 1, horario |-> 18],
                                   [dia |-> 1, horario |-> 18] >>) } ]

ClaseMove ==
    [ old_dia : DiasSemana, old_horario : Horarios,
      new_dia : DiasSemana, new_horario : Horarios ]

ClaseIds == 1..(serial.clases + 1)

NextClases ==
    \/ \E data \in ClasesEnviadas : CreateClase(data)
    \/ \E id \in ClaseIds, data \in ClasesEnviadas : UpdateClase(id, data)
    \/ \E id \in ClaseIds, data \in ClaseMove : MoveClase(id, data)
    \/ \E data \in ReservasDeYoga, dbok \in BOOLEAN : BookClase(data, dbok)
    \/ \E found \in ReservaIds : CancelReserva(found)

SpecClases == InitAcceso /\ [][NextClases]_vars

\* C22: after the update of a stored class its nombre, coach, color,
\* capacidad_max and horarios_detalle are the ones of the request.
C22_ClaseReemplazada ==
    [][ \A id \in DOMAIN clases, data \in ClasesEnviadas :
          UpdateClase(id, data) => clases'[id] = Clase(data) ]_vars

\* The columns of a class other than horarios_detalle.
SinHorarios(c) == [ k \in DOMAIN c \ {"horarios_detalle"} |-> c[k] ]

\* C23: a move on a stored class rewrites the first entry of horarios_detalle
\* whose dia and horario are the old ones to the new ones and nothing else:
\* the list keeps its length and its other entries, the class its other
\* columns, the other classes and the bookings stay as they were; when no
\* entry matches, the answer says the original time was not found and nothing
\* changes.
C23_MueveUnSoloHorario ==
    [][ \A id \in DOMAIN clases, data \in ClaseMove :
          MoveClase(id, data)
          => LET h == ListaHorarios(clases[id])
                 h2 == ListaHorarios(clases'[id])
                 ix == { i \in DOMAIN h : /\ h[i].dia = data.old_dia
                                          /\ h[i].horario = data.old_horario }
             IN /\ reservas' = reservas
                /\ DOMAIN clases' = DOMAIN clases
                /\ \A k \in DOMAIN clases :
                      /\ SinHorarios(clases'[k]) = SinHorarios(clases[k])
                      /\ k # id => clases'[k] = clases[k]
                /\ IF ix = {}
                   THEN /\ clases' = clases
                        /\ last'.detail = "error: No se encontró el horario original"
                   ELSE \E i \in ix :
                          /\ \A j \in ix : i <= j
                          /\ Len(h2) = Len(h)
                          /\ h2[i] = [h[i] EXCEPT !.dia = data.new_dia,
                                                  !.horario = data.new_horario]
                          /\ \A j \in DOMAIN h \ {i} : h2[j] = h[j] ]_vars

\* C23, the case: of two entries for day 1 at 18 the first has been moved to
\* day 2 and the second is where it was.
C23_PrimeroMovido ==
    /\ last.op = "move_clase" /\ last.status = 200 /\ last.detail = "success"
    /\ 1 \in DOMAIN clases
    /\ clases[1].horarios_detalle =
          Some(<< [dia |-> 2, horario |-> 18], [dia |-> 1, horario |-> 18] >>)

\* -------------------------------------------------- ids that name nothing

\* PUT /api/stock/{id}: an unknown id is answered 200 with an error body.
UpdateStock(id, data) ==
    /\ started
    /\ IF id \in DOMAIN stock
       THEN /\ stock' = [stock EXCEPT ![id] =
                           [@ EXCEPT !.nombre_producto = data.nombre_producto,
                                     !.stock_actual = data.stock_actual,
                                     !.precio_venta = data.precio_venta]]
            /\ Reply("update_stock", 200, "success")
       ELSE /\ Reply("update_stock", 200, "error: Producto no encontrado")
            /\ UNCHANGED stock
    /\ UNCHANGED << hoy, started, uc, usuarios, planes, clases, reservas, caja,
                    accesos, planes_rutina, serial, txs >>

StockUpdate ==
    [ nombre_producto : {"Agua"}, stock_actual : {1, 3}, precio_venta : {50} ]

\* Routine plans of one day without exercises.
RutinasSinEjercicios ==
    { data \in PlanRutinaCreate : data.dias[1].ejercicios = None }

\* Class bodies with a capacity.
ClasesConCupo == { data \in ClaseUpdate : data.capacidad_max = Some(1) }

\* Plan bodies of one class a month.
PlanesDeUnaClase == { data \in PlanUpdate : data.clases_mensuales = 1 }

\* The server with a member, a class and a product.
InitIds ==
    /\ InitTables(UnAlumno, SeedClases, SeedStock)
    /\ started = TRUE
    /\ uc = {}

\* Every write that takes an id, with ids in use and one past the last.
NextIds ==
    \/ \E data \in RutinasSinEjercicios : RutinaBegin(data)
    \/ \E s \in BagToSet(txs), dbok \in BOOLEAN : RutinaCommit(s, dbok)
    \/ \E id \in UsuarioIds : DeleteUsuario(id)
    \/ \E id \in UsuarioIds, body \in EdicionesSinRol, dbok \in BOOLEAN :
          UpdateStaff(id, body, dbok)
    \/ \E data \in ReservaCreate, dbok \in BOOLEAN : BookClase(data, dbok)
    \/ \E found \in ReservaIds : CancelReserva(found)
    \/ \E id \in ClaseIds, data \in ClasesConCupo : UpdateClase(id, data)
    \/ \E id \in {1, 3}, data \in PlanesDeUnaClase : UpdatePlan(id, data)
    \/ \E id \in {1, 3} : DeletePlan(id)
    \/ \E id \in {1, 2}, data \in StockUpdate : UpdateStock(id, data)

SpecIds == InitIds /\ [][NextIds]_vars

\* The answer is a 404 and no table has changed.
NoEncontrado ==
    /\ last'.status = 404
    /\ UNCHANGED << usuarios, planes, clases, reservas, stock, caja, accesos,
                    planes_rutina >>

\* C24: an update, delete, cancellation, booking or routine plan that names a
\* person, plan, class, product or booking by an id that is not stored is
\* answered 404 and changes no table.
C24_IdDesconocidoEs404 ==
    [][ /\ \A data \in RutinasSinEjercicios :
              (RutinaBegin(data) /\ data.usuario_id \notin DOMAIN usuarios)
              => NoEncontrado
        /\ \A id \in UsuarioIds \ DOMAIN usuarios :
              /\ DeleteUsuario(id) => NoEncontrado
              /\ \A body \in EdicionesSinRol :
                    UpdateStaff(id, body, TRUE) => NoEncontrado
        /\ \A data \in ReservaCreate :
              ( /\ BookClase(data, TRUE)
                /\ \/ data.usuario_id \notin DOMAIN usuarios
                   \/ data.clase_id \notin DOMAIN clases )
              => NoEncontrado
        /\ CancelReserva(None) => NoEncontrado
        /\ \A id \in ClaseIds \ DOMAIN clases, data \in ClasesConCupo :
              UpdateClase(id, data) => NoEncontrado
        /\ \A id \in {1, 3} \ DOMAIN planes :
              /\ DeletePlan(id) => NoEncontrado
              /\ \A data \in PlanesDeUnaClase : UpdatePlan(id, data) => NoEncontrado
        /\ \A id \in {1, 2} \ DOMAIN stock, data \in StockUpdate :
              UpdateStock(id, data) => NoEncontrado ]_vars

\* ------------------------------------------ the order of book_clase's checks

\* Bookings of every person and class, the ones past the last id included,
\* while plan 1 goes from no class a month to one to no limit.
NextOrden ==
    \/ \E data \in ReservaCreate, dbok \in BOOLEAN : BookClase(data, dbok)
    \/ \E found \in ReservaIds : CancelReserva(found)
    \/ \E data \in PlanUpdate : UpdatePlan(1, data)

SpecOrden == InitCupos /\ [][NextOrden]_vars

\* C25: with the database up, a booking request is answered by the first of
\* these that fails: the person is stored, the person's bookings of the month
\* are below the plan's limit, the person holds no booking of the same class,
\* time and day, the class is stored, the bookings of the class, time and day
\* are below its capacity.  A request that fails adds nothing; one that
\* passes them all adds exactly one booking dated today.
C25_PrimerChequeoQueFalla ==
    [][ \A data \in ReservaCreate :
          BookClase(data, TRUE)
          => LET uid == data.usuario_id
                 delMes == { r \in BagToSet(reservas) :
                               /\ r.usuario_id = uid
                               /\ r.fecha_reserva \div DiasPorMes = hoy \div DiasPorMes }
                 turno == { r \in BagToSet(reservas) :
                               /\ r.clase_id = data.clase_id
                               /\ r.horario = data.horario
                               /\ r.dia_semana = data.dia_semana }
                 esperado ==
                    IF uid \notin DOMAIN usuarios
                    THEN "Usuario no encontrado"
                    ELSE IF /\ usuarios[uid].plan_id # None
                            /\ planes[Val(usuarios[uid].plan_id)].clases_mensuales
                                  < CupoIlimitado
                            /\ BagCardinality([ r \in delMes |-> reservas[r] ])
                                  >= planes[Val(usuarios[uid].plan_id)].clases_mensuales
                    THEN CupoAgotado
                    ELSE IF \E r \in turno : r.usuario_id = uid
                    THEN "Ya tienes reservado este turno específico."
                    ELSE IF data.clase_id \notin DOMAIN clases
                    THEN "Clase no encontrada"
                    ELSE IF BagCardinality([ r \in turno |-> reservas[r] ])
                               >= Val(clases[data.clase_id].capacidad_max)
                    THEN "Este horario no tiene cupos disponibles"
                    ELSE "success"
             IN /\ last'.detail = esperado
                /\ last'.status =
                      IF esperado = "success" THEN 200
                      ELSE IF esperado \in {"Usuario no encontrado", "Clase no encontrada"}
                      THEN 404 ELSE 400
                /\ reservas' = IF esperado = "success"
                               THEN Add(reservas,
                                        [ usuario_id |-> uid, clase_id |-> data.clase_id,
                                          fecha_reserva |-> hoy, horario |-> data.horario,
                                          dia_semana |-> data.dia_semana ])
                               ELSE reservas ]_vars

\* C25, the case: a request has passed every check but the last, and has
\* been refused because the class is full at that time and day.
C25_RechazadoPorCupoDeClase ==
    /\ last.op = "book" /\ last.status = 400
    /\ last.detail = "Este horario no tiene cupos disponibles"
    /\ BagCardinality(reservas) >= 1

\* C26: every payload, whether or not it is one identifier and one signature
\* with a colon between them, is answered with a decision whose status is
\* AUTHORIZED or DENIED, never with an unhandled error; a payload with no
\* colon or with more than one is DENIED.
C26_ValidacionTotal ==
    [][ \A qr \in QrPayloads, logok \in BOOLEAN :
          ValidarAccesoQr(qr, logok)
          => /\ last'.status = 200
             /\ last'.body.status \in {"AUTHORIZED", "DENIED"}
             /\ Len(qr) # 2 => last'.body.status = "DENIED" ]_vars

\* ------------------------------------- payments of merchandise that overlap

\* The stock branch applies to the payment.
TocaStock(data) == EsMercaderia(data.tipo) /\ data.producto_id # 0

\* POST /api/cobros/procesar for a payment that renews no plan, up to
\* db.commit(): the ledger row is in the session, the product, if the payment
\* is of merchandise, has been read and the session holds the stock_actual it
\* computed from what it read (autoflush is off, so nothing is written before
\* the commit).
CobroBegin(data) ==
    /\ started
    /\ ~EsPlan(data.tipo)
    /\ BagCardinality(txs) < MaxSesiones
    /\ BagCardinality(caja) + BagCardinality(txs) < MaxMovimientos
    /\ IF IsSome(CobroStock(data, stock).error)
       THEN /\ Reply("cobro", 404, "Producto no encontrado")
            /\ UNCHANGED txs
       ELSE /\ txs' = Add(txs, [ cobro |-> data,
                                 stock_actual |->
                                    IF TocaStock(data)
                                    THEN Some(CobroStock(data, stock).stock[data.producto_id].stock_actual)
                                    ELSE None ])
            /\ UNCHANGED last
    /\ UNCHANGED << hoy, started, uc, usuarios, planes, clases, reservas,
                    stock, caja, accesos, planes_rutina, serial >>

\* db.commit() of such a payment: the INSERT into caja and, for merchandise,
\* the UPDATE that sets stock_actual to the value the session holds.
CobroCommit(s, dbok) ==
    /\ started
    /\ "cobro" \in DOMAIN s
    /\ txs' = Remove(txs, s)
    /\ LET res == CobroRespuesta([error |-> None], dbok)
           ok == res.status = 200
       IN /\ Reply("cobro", res.status, res.detail)
          /\ caja' = Persistir(ok, Add(caja, CobroMovimiento(s.cobro)), caja)
          /\ stock' = IF IsSome(s.stock_actual)
                      THEN Persistir(ok, [stock EXCEPT ![s.cobro.producto_id].stock_actual =
                                                         Val(s.stock_actual)], stock)
                      ELSE stock
    /\ UNCHANGED << hoy, started, uc, usuarios, planes, clases, reservas,
                    accesos, planes_rutina, serial >>

\* Sales of the seeded product and of one that is not stored, and payments
\* of another kind, which the stock branch leaves alone.
CobrosDeMercaderia ==
    { data \in TransactionCreate : /\ data.tipo \in {"Mercaderia", "Otro"}
                                   /\ data.alumno_id = 0
                                   /\ data.producto_id \in {1, 2} }

NextCobrosConc ==
    \/ \E data \in CobrosDeMercaderia : CobroBegin(data)
    \/ \E s \in BagToSet(txs), dbok \in BOOLEAN : CobroCommit(s, dbok)
    \/ GetCajaResumen

SpecCobrosConc == InitCobros /\ [][NextCobrosConc]_vars

\* C27: however payments of merchandise overlap, each one that succeeds
\* leaves the product's stock_actual lower by its cantidad than it was when
\* the payment committed, so that no decrement is lost.
C27_SinDescuentoPerdido ==
    [][ \A s \in BagToSet(txs) :
          (CobroCommit(s, TRUE) /\ last'.status = 200 /\ TocaStock(s.cobro))
          => stock'[s.cobro.producto_id].stock_actual =
                stock[s.cobro.producto_id].stock_actual - s.cobro.cantidad ]_vars

\* C28: a request for a routine plan that fails, because the person is not
\* stored, because an insert breaks a foreign key or because the commit
\* raises, leaves planes_rutina as it was, every plan with the activo it had,
\* and no session of its own pending.
C28_RutinaFallidaSinRastro ==
    [][ /\ \A data \in PlanRutinaCreate :
              ( /\ RutinaBegin(data)
                /\ \/ data.usuario_id \notin DOMAIN usuarios
                   \/ ViolaEjercicios(data) )
              => /\ last'.status = 500
                 /\ planes_rutina' = planes_rutina
                 /\ txs' = txs
        /\ \A s \in BagToSet(txs) :
              RutinaCommit(s, FALSE)
              => /\ last'.status = 500
                 /\ planes_rutina' = planes_rutina
                 /\ txs' = Remove(txs, s) ]_vars

\* C28, the case: a request has failed and the plan that was active before
\* it is stored, still active.
C28_PlanAnteriorSigueActivo ==
    /\ last.op = "rutina" /\ last.status = 500
    /\ txs = EmptyBag
    /\ serial.planes_rutina = 2
    /\ DOMAIN planes_rutina = {1}
    /\ planes_rutina[1].activo

====
